---- MODULE Spec2Model ----
(***************************************************************************)
(* The authentication / session-token subsystem: password policy and       *)
(* hashing, JWT access and refresh tokens, the refresh-token and blacklist *)
(* tables, the authenticateToken middleware and the /api/register, login,  *)
(* refresh, logout, logout-all and user handlers.                          *)
(*                                                                         *)
(* Time is counted in seconds (the resolution of a JWT's iat and exp).     *)
(* A request handler is a process; it takes one step per statement it      *)
(* awaits on the store or on scrypt, the middleware's two lookups          *)
(* included: a step is the answer of the awaited statement and the         *)
(* synchronous code up to the next await, which reads the tables and the   *)
(* clock as they are when the answer comes.  The arrival of a request is   *)
(* one step with the answer of its first statement where the code in front *)
(* of that statement reads neither the tables nor the clock.  Every        *)
(* statement on the store either succeeds or throws (the store is          *)
(* unavailable).  TZ is the time zone of the process: generateRefreshToken *)
(* computes the expiry of a record in local time.  PUT /api/profile        *)
(* (routes.ts) is the one other writer of the users table; its session     *)
(* middleware (./auth) is not part of the sources, so the route is taken   *)
(* for any stored user.  The express-rate-limit middleware is not          *)
(* modelled: the model covers the requests it lets through.                *)
(***************************************************************************)
EXTENDS Integers, Sequences, FiniteSets, TLC

(***************************************************************************)
(* Bounds of the model.                                                    *)
(***************************************************************************)
\* Requests started in one behaviour.
MaxRequests == 3
\* Requests answered with an error status (4xx, 5xx) in one behaviour.
MaxFailures == 1
\* Advances of the clock in one behaviour.
MaxTicks == 1
\* The short advance of the clock, in seconds (half an access token's life).
TickSeconds == 450

\* The request processes that may be in flight at once.  A request is taken by p1
\* when p1 is free, and by p2 when p1 is busy.
Procs == {"p1", "p2"}

(***************************************************************************)
(* Characters and strings.  A string the validators look into is known by  *)
(* its characters: Str maps the literals the requests use to them.         *)
(***************************************************************************)
LowerChars == {"a", "b", "c", "d", "e", "f", "g", "h", "i", "j", "k", "l", "m", "n", "o", "p", "q", "r", "s", "t", "u", "v", "w", "x", "y", "z"}
UpperChars == {"A", "B", "C", "D", "E", "F", "G", "H", "I", "J", "K", "L", "M", "N", "O", "P", "Q", "R", "S", "T", "U", "V", "W", "X", "Y", "Z"}
DigitChars == {"0", "1", "2", "3", "4", "5", "6", "7", "8", "9"}
Alphabet == <<"a", "b", "c", "d", "e", "f", "g", "h", "i", "j", "k", "l", "m", "n", "o", "p", "q", "r", "s", "t", "u", "v", "w", "x", "y", "z">>
Digits == <<"0", "1", "2", "3", "4", "5", "6", "7", "8", "9">>

ToLower(c) ==
    CASE c = "A" -> "a"
        [] c = "B" -> "b"
        [] c = "C" -> "c"
        [] c = "D" -> "d"
        [] c = "E" -> "e"
        [] c = "F" -> "f"
        [] c = "G" -> "g"
        [] c = "H" -> "h"
        [] c = "I" -> "i"
        [] c = "J" -> "j"
        [] c = "K" -> "k"
        [] c = "L" -> "l"
        [] c = "M" -> "m"
        [] c = "N" -> "n"
        [] c = "O" -> "o"
        [] c = "P" -> "p"
        [] c = "Q" -> "q"
        [] c = "R" -> "r"
        [] c = "S" -> "s"
        [] c = "T" -> "t"
        [] c = "U" -> "u"
        [] c = "V" -> "v"
        [] c = "W" -> "w"
        [] c = "X" -> "x"
        [] c = "Y" -> "y"
        [] c = "Z" -> "z"
        [] OTHER -> c

LowerSeq(s) == [i \in 1..Len(s) |-> ToLower(s[i])]

\* s has t as a contiguous substring.
Contains(s, t) ==
    \E i \in 1..(Len(s) - Len(t) + 1) : SubSeq(s, i, i + Len(t) - 1) = t

StartsWith(s, c) == Len(s) > 0 /\ s[1] = c
EndsWith(s, c) == Len(s) > 0 /\ s[Len(s)] = c

(***************************************************************************)
(* Password, email and name policy (password-validation.ts).               *)
(***************************************************************************)
AlnumChars == LowerChars \cup UpperChars \cup DigitChars
LetterChars == LowerChars \cup UpperChars
\* The characters the regular expression class \s matches.  A character TLA+ has no
\* escape for goes by its code point.
SpaceChars ==
    {" ", "\t", "\n", "\r", "\f", "U+000B", "U+00A0", "U+1680", "U+2000", "U+2001",
     "U+2002", "U+2003", "U+2004", "U+2005", "U+2006", "U+2007", "U+2008", "U+2009",
     "U+200A", "U+2028", "U+2029", "U+202F", "U+205F", "U+3000", "U+FEFF"}
\* The characters the regular expression atom . does not match.
LineTerminators == {"\n", "\r", "U+2028", "U+2029"}

HasLower(p) == \E i \in 1..Len(p) : p[i] \in LowerChars
HasUpper(p) == \E i \in 1..Len(p) : p[i] \in UpperChars
HasDigit(p) == \E i \in 1..Len(p) : p[i] \in DigitChars
HasSpecial(p) == \E i \in 1..Len(p) : p[i] \notin AlnumChars

\* /123456/, /password/i, /qwerty/i, /admin/i, /user/i, /login/i
HasCommonPattern(p) ==
    \/ Contains(p, <<"1", "2", "3", "4", "5", "6">>)
    \/ Contains(LowerSeq(p), <<"p", "a", "s", "s", "w", "o", "r", "d">>)
    \/ Contains(LowerSeq(p), <<"q", "w", "e", "r", "t", "y">>)
    \/ Contains(LowerSeq(p), <<"a", "d", "m", "i", "n">>)
    \/ Contains(LowerSeq(p), <<"u", "s", "e", "r">>)
    \/ Contains(LowerSeq(p), <<"l", "o", "g", "i", "n">>)

\* abc|bcd|...|xyz|012|123|...|789
SequentialRuns ==
    {SubSeq(Alphabet, i, i + 2) : i \in 1..(Len(Alphabet) - 2)}
        \cup {SubSeq(Digits, i, i + 2) : i \in 1..(Len(Digits) - 2)}

\* /(?:abc|...|789)/i
HasSequential(p) ==
    \E i \in 1..(Len(p) - 2) : LowerSeq(SubSeq(p, i, i + 2)) \in SequentialRuns

\* /(.)\1{2,}/: a character that is no line terminator, three times in a row.
HasRepeated(p) ==
    \E i \in 1..(Len(p) - 2) :
        p[i] \notin LineTerminators /\ p[i] = p[i + 1] /\ p[i + 1] = p[i + 2]

\* The messages of the checks of passwordValidationSchema that p fails.
\* The schema with its length checks only.
PasswordIssues_LengthOnly(p) ==
    {m \in {"Password must be at least 8 characters long",
            "Password must not exceed 128 characters"} :
        IF m = "Password must be at least 8 characters long" THEN Len(p) < 8
        ELSE Len(p) > 128}

PasswordIssues(p) ==
    {m \in {"Password must be at least 8 characters long",
            "Password must not exceed 128 characters",
            "Password must contain at least one lowercase letter",
            "Password must contain at least one uppercase letter",
            "Password must contain at least one number",
            "Password must contain at least one special character",
            "Password contains common patterns and is not secure",
            "Password should not contain sequential characters",
            "Password should not contain more than 2 consecutive identical characters"} :
        CASE m = "Password must be at least 8 characters long" -> Len(p) < 8
          [] m = "Password must not exceed 128 characters" -> Len(p) > 128
          [] m = "Password must contain at least one lowercase letter" -> ~HasLower(p)
          [] m = "Password must contain at least one uppercase letter" -> ~HasUpper(p)
          [] m = "Password must contain at least one number" -> ~HasDigit(p)
          [] m = "Password must contain at least one special character" -> ~HasSpecial(p)
          [] m = "Password contains common patterns and is not secure" -> HasCommonPattern(p)
          [] m = "Password should not contain sequential characters" -> HasSequential(p)
          [] OTHER -> HasRepeated(p)}

\* The gate with its first check only.
passwordValidationSchema_MinLength(p) == Len(p) >= 8

passwordValidationSchema(p) == PasswordIssues(p) = {}

\* z.string().email(): one "@"; a local part of letters, digits and _'+-. that
\* neither starts nor ends with a dot; no ".." anywhere; a domain of dot-separated
\* labels of letters, digits and hyphens, each starting with a letter or digit,
\* the last one of two or more letters.
ZodEmail(e) ==
    /\ Cardinality({i \in 1..Len(e) : e[i] = "@"}) = 1
    /\ LET at == CHOOSE i \in 1..Len(e) : e[i] = "@"
           local == SubSeq(e, 1, at - 1)
           domain == SubSeq(e, at + 1, Len(e))
           dots == {i \in 1..Len(domain) : domain[i] = "."}
           lastDot == CHOOSE i \in dots : \A j \in dots : j <= i
       IN  /\ Len(local) > 0
           /\ \A i \in 1..Len(local) : local[i] \in AlnumChars \cup {"_", "'", "+", "-", "."}
           /\ local[1] # "."
           /\ local[Len(local)] \in AlnumChars \cup {"_", "+", "-"}
           /\ ~Contains(e, <<".", ".">>)
           /\ dots # {}
           /\ \A i \in 1..Len(domain) : domain[i] \in AlnumChars \cup {"-", "."}
           /\ Len(domain) > 0 /\ domain[1] \in AlnumChars
           /\ \A i \in dots : i < Len(domain) /\ domain[i + 1] \in AlnumChars
           /\ Len(domain) - lastDot >= 2
           /\ \A i \in (lastDot + 1)..Len(domain) : domain[i] \in LetterChars

\* The messages of the checks of emailValidationSchema that e fails: the three checks
\* of the string, then the refinement, which runs whatever the checks found.
EmailIssues(e) ==
    LET ats == {i \in 1..Len(e) : e[i] = "@"}
        at == CHOOSE i \in ats : TRUE
        localPart == SubSeq(e, 1, at - 1)
        domain == SubSeq(e, at + 1, Len(e))
        refined ==
            /\ Cardinality(ats) = 1
            /\ Len(localPart) <= 64
            /\ ~StartsWith(localPart, ".") /\ ~EndsWith(localPart, ".")
            /\ ~Contains(localPart, <<".", ".">>)
            /\ Len(domain) <= 253
            /\ ~StartsWith(domain, "-") /\ ~EndsWith(domain, "-")
    IN  (IF ZodEmail(e) THEN {} ELSE {"Please enter a valid email address"})
            \cup (IF Len(e) >= 5 THEN {} ELSE {"Email must be at least 5 characters long"})
            \cup (IF Len(e) <= 254 THEN {} ELSE {"Email must not exceed 254 characters"})
            \cup (IF refined THEN {} ELSE {"Email format is not valid"})

\* The messages of the checks of nameValidationSchema that n fails.
NameIssues(n) ==
    LET edge == SpaceChars \cup {"'", "-"}
    IN  (IF Len(n) >= 2 THEN {} ELSE {"Name must be at least 2 characters long"})
            \cup (IF Len(n) <= 50 THEN {} ELSE {"Name must not exceed 50 characters"})
            \cup (IF /\ Len(n) >= 1
                      /\ \A i \in 1..Len(n) : n[i] \in LetterChars \cup SpaceChars \cup {"'", "-"}
                   THEN {}
                   ELSE {"Name can only contain letters, spaces, hyphens, and apostrophes"})
            \cup (IF Len(n) >= 1 /\ (n[1] \in edge \/ n[Len(n)] \in edge)
                   THEN {"Name cannot start or end with special characters"}
                   ELSE {})
            \cup (IF \E i \in 1..(Len(n) - 3) : \A j \in i..(i + 3) : n[j] \in SpaceChars
                   THEN {"Name contains too many consecutive spaces"}
                   ELSE {})

\* What is not there: a field the body lacks, the salt of a stored value with no
\* separator.  MissingStr stands for it where a string is looked into.
Undefined == "undefined"
MissingStr == <<Undefined>>

\* z.string(): a value that is no string is reported as "Required" and none of the
\* checks of the string is run on it.
emailValidationSchema(e) == e # MissingStr /\ EmailIssues(e) = {}

nameValidationSchema(n) == n # MissingStr /\ NameIssues(n) = {}

\* The issues safeParse reports for a registration body, as <<field, message>>.  A
\* field that is no string is reported as "Required" and aborts the object, so that
\* the refinement comparing password and confirmPassword is not run; a string that
\* fails its checks does not.
RegistrationIssues(body) ==
    LET missing == {f \in {"name", "email", "password", "confirmPassword"} :
                        body[f] = MissingStr}
    IN  {<<f, "Required">> : f \in missing}
            \cup (IF "name" \in missing THEN {}
                  ELSE {<<"name", m>> : m \in NameIssues(body.name)})
            \cup (IF "email" \in missing THEN {}
                  ELSE {<<"email", m>> : m \in EmailIssues(body.email)})
            \cup (IF "password" \in missing THEN {}
                  ELSE {<<"password", m>> : m \in PasswordIssues(body.password)})
            \cup (IF missing # {} \/ body.password = body.confirmPassword THEN {}
                  ELSE {<<"confirmPassword", "Passwords do not match">>})

registrationValidationSchema(body) == RegistrationIssues(body) = {}

\* The issues safeParse reports for a login body, as <<field, message>>.
LoginIssues(body) ==
    (IF body.email = MissingStr THEN {<<"email", "Required">>}
     ELSE {<<"email", m>> : m \in EmailIssues(body.email)})
        \cup (IF body.password = MissingStr THEN {<<"password", "Required">>}
              ELSE IF Len(body.password) >= 1 THEN {}
              ELSE {<<"password", "Password is required">>})

loginValidationSchema(body) == LoginIssues(body) = {}

StrengthScore(password) ==
    (IF Len(password) >= 8 THEN 1 ELSE 0)
        + (IF Len(password) >= 12 THEN 1 ELSE 0)
        + (IF Len(password) >= 16 THEN 1 ELSE 0)
        + (IF HasLower(password) THEN 1 ELSE 0)
        + (IF HasUpper(password) THEN 1 ELSE 0)
        + (IF HasDigit(password) THEN 1 ELSE 0)
        + (IF HasSpecial(password) THEN 1 ELSE 0)
        + (IF ~HasRepeated(password) THEN 1 ELSE 0)
        + (IF ~HasSequential(password) THEN 1 ELSE 0)

StrengthFeedback(password) ==
    (IF Len(password) < 16 /\ Len(password) < 8 THEN {"Use at least 8 characters"} ELSE {})
        \cup (IF HasLower(password) THEN {} ELSE {"Add lowercase letters"})
        \cup (IF HasUpper(password) THEN {} ELSE {"Add uppercase letters"})
        \cup (IF HasDigit(password) THEN {} ELSE {"Add numbers"})
        \cup (IF HasSpecial(password) THEN {} ELSE {"Add special characters"})
        \cup (IF ~HasRepeated(password) THEN {} ELSE {"Avoid repeated characters"})
        \cup (IF ~HasSequential(password) THEN {} ELSE {"Avoid sequential characters"})

\* The scorer with the band limits one point too high.
calculatePasswordStrength_BandsShifted(password) ==
    LET score == StrengthScore(password)
    IN  [score |-> score,
         strength |-> IF score <= 3 THEN "very-weak"
                      ELSE IF score <= 5 THEN "weak"
                      ELSE IF score <= 7 THEN "fair"
                      ELSE IF score <= 9 THEN "good"
                      ELSE "strong",
         feedback |-> StrengthFeedback(password)]

calculatePasswordStrength(password) ==
    LET score == StrengthScore(password)
    IN  [score |-> score,
         strength |-> IF score <= 2 THEN "very-weak"
                      ELSE IF score <= 4 THEN "weak"
                      ELSE IF score <= 6 THEN "fair"
                      ELSE IF score <= 8 THEN "good"
                      ELSE "strong",
         feedback |-> StrengthFeedback(password)]

(***************************************************************************)
(* Password hashing (jwt-auth.ts).  scrypt is a function of the password   *)
(* and the salt; a stored credential is "<hex of the key>.<salt>".         *)
(***************************************************************************)
\* scryptAsync(password, salt, 64): the 64-byte key; different inputs, different keys.
Scrypt(password, salt) == <<password, salt>>

\* A string of hex digits: the bytes its leading pairs of hex digits denote and how
\* many such pairs there are.  buf.toString("hex") of a 64-byte key has 64.
ToHex(buf) == [bytes |-> buf, pairs |-> 64]

\* Buffer.from(hex, "hex"): decoding stops at the first pair that is not hex.
FromHex(hex) == [bytes |-> hex.bytes, length |-> hex.pairs]

\* A stored credential is the sequence of the parts stored.split(".") yields.
hashPassword(password, salt) == <<ToHex(Scrypt(password, salt)), salt>>

\* A comparison that takes the key of the supplied password under no salt.
comparePasswords_Unsalted(supplied, stored) ==
    LET hashed == stored[1]
        salt == IF Len(stored) >= 2 THEN stored[2] ELSE Undefined
        hashedBuf == FromHex(hashed)
    IN  IF salt = Undefined \/ hashedBuf.length # 64 THEN "throws"
        ELSE IF hashedBuf.bytes = Scrypt(supplied, "") THEN "true"
        ELSE "false"

\* "true" or "false" for what it returns; "throws" when scrypt rejects a salt that is
\* undefined or timingSafeEqual rejects buffers of different lengths.
comparePasswords(supplied, stored) ==
    LET hashed == stored[1]
        salt == IF Len(stored) >= 2 THEN stored[2] ELSE Undefined
        hashedBuf == FromHex(hashed)
        suppliedBuf == Scrypt(supplied, salt)
    IN  IF salt = Undefined THEN "throws"
        ELSE IF hashedBuf.length # 64 THEN "throws"
        ELSE IF hashedBuf.bytes = suppliedBuf THEN "true"
        ELSE "false"

(***************************************************************************)
(* The strings of the requests.                                            *)
(***************************************************************************)
Str(s) ==
    CASE s = "Ada Lovelace" -> <<"A", "d", "a", " ", "L", "o", "v", "e", "l", "a", "c", "e">>
      [] s = "Bob" -> <<"B", "o", "b">>
      [] s = "ada@example.com" -> <<"a", "d", "a", "@", "e", "x", "a", "m", "p", "l", "e", ".", "c", "o", "m">>
      [] s = "bob@example.com" -> <<"b", "o", "b", "@", "e", "x", "a", "m", "p", "l", "e", ".", "c", "o", "m">>
      [] s = "eve@example.com" -> <<"e", "v", "e", "@", "e", "x", "a", "m", "p", "l", "e", ".", "c", "o", "m">>
      [] s = "a..b@example.com" -> <<"a", ".", ".", "b", "@", "e", "x", "a", "m", "p", "l", "e", ".", "c", "o", "m">>
      [] s = "Str0ng!Pass9" -> <<"S", "t", "r", "0", "n", "g", "!", "P", "a", "s", "s", "9">>
      [] s = "C0rrect#Horse7" -> <<"C", "0", "r", "r", "e", "c", "t", "#", "H", "o", "r", "s", "e", "7">>
      [] s = "Passw0rd!" -> <<"P", "a", "s", "s", "w", "0", "r", "d", "!">>
      [] s = "abc" -> <<"a", "b", "c">>
      [] s = "aaa" -> <<"a", "a", "a">>
      [] s = "password" -> <<"p", "a", "s", "s", "w", "o", "r", "d">>
      [] s = "Abcdef12" -> <<"A", "b", "c", "d", "e", "f", "1", "2">>
      [] s = "Gr8t&Wondr0us-Kiwi7" -> <<"G", "r", "8", "t", "&", "W", "o", "n", "d", "r", "0", "u", "s", "-", "K", "i", "w", "i", "7">>
      [] s = "\n\n\nAb1!kkTw" -> <<"\n", "\n", "\n", "A", "b", "1", "!", "k", "k", "T", "w">>
      [] s = "Ab1!\n\n\nkkTwzz" -> <<"A", "b", "1", "!", "\n", "\n", "\n", "k", "k", "T", "w", "z", "z">>
      [] s = "\n\n\n" -> <<"\n", "\n", "\n">>
      [] s = "A\nl" -> <<"A", "\n", "l">>
      [] s = "A\rl" -> <<"A", "\r", "l">>
      [] s = "A\fl" -> <<"A", "\f", "l">>
      [] s = "A" -> <<"A">>
      [] s = "Ada1" -> <<"A", "d", "a", "1">>
      [] s = "-Ada" -> <<"-", "A", "d", "a">>
      [] s = "Al \t\n Bo" -> <<"A", "l", " ", "\t", "\n", " ", "B", "o">>
      [] s = "" -> <<>>
      [] s = Undefined -> MissingStr

\* req.body of POST /api/register
RegisterBodies ==
    {[name |-> "Ada Lovelace", email |-> "ada@example.com",
      password |-> "Str0ng!Pass9", confirmPassword |-> "Str0ng!Pass9"],
     [name |-> "Bob", email |-> "bob@example.com",
      password |-> "C0rrect#Horse7", confirmPassword |-> "C0rrect#Horse7"],
     [name |-> "Ada Lovelace", email |-> "ada@example.com",
      password |-> "Str0ng!Pass9", confirmPassword |-> "C0rrect#Horse7"],
     [name |-> "Bob", email |-> "a..b@example.com",
      password |-> "Passw0rd!", confirmPassword |-> "Passw0rd!"],
     [name |-> "Bob", email |-> "bob@example.com",
      password |-> "password", confirmPassword |-> "password"],
     [name |-> "Bob", email |-> "a..b@example.com",
      password |-> "C0rrect#Horse7", confirmPassword |-> "Str0ng!Pass9"],
     [name |-> Undefined, email |-> "bob@example.com",
      password |-> "C0rrect#Horse7", confirmPassword |-> "Str0ng!Pass9"]}

\* req.body of POST /api/login
LoginBodies ==
    {[email |-> "ada@example.com", password |-> "Str0ng!Pass9"],
     [email |-> "ada@example.com", password |-> "C0rrect#Horse7"],
     [email |-> "eve@example.com", password |-> "Str0ng!Pass9"],
     [email |-> "a..b@example.com", password |-> ""],
     [email |-> "ada@example.com", password |-> Undefined]}

\* The values randomBytes(16).toString("hex") draws here.
Salts == {"5a17"}

\* process.env.JWT_SECRET || fallback and process.env.REFRESH_SECRET || fallback, with
\* neither variable set.
FallbackSecrets ==
    [jwt |-> "fallback-secret-change-in-production",
     refresh |-> "fallback-refresh-secret-change-in-production"]

(***************************************************************************)
(* State.                                                                  *)
(***************************************************************************)
VARIABLES
    now,                \* the clock, in seconds
    ticks,              \* advances of the clock so far
    JWT_SECRET,         \* jwt.ts: the access-token signing secret
    REFRESH_SECRET,     \* jwt.ts: the refresh-token signing secret
    TZ,                 \* the time zone of the process: when its UTC offset changes, and by how much
    users,              \* table users
    refreshTokens,      \* table refresh_tokens
    blacklistedTokens,  \* table blacklisted_tokens
    nextTokenId,        \* the next value randomBytes(32) draws: never one drawn before
    proc,               \* per request process: position, request, locals, response
    nreq,               \* requests started so far
    nfail,              \* requests answered with an error status so far
    last,               \* the request answered last, with its response
    delivered,          \* the tokens responses have handed to clients
    issuedRefresh,      \* the refresh tokens generateRefreshToken has returned
    rotated,            \* per tokenId: the successful refresh requests that presented it
    revokedByAll,       \* refresh tokens issued before a completed revokeAllRefreshTokens of their user
    blacklistedEver,    \* the tokens blacklistToken has stored an entry for
    unswept,            \* refresh_tokens and blacklisted_tokens as they would be had cleanupExpiredTokens never run
    call                \* the function called by itself last: name, arguments, result

vars == <<now, ticks, JWT_SECRET, REFRESH_SECRET, TZ, users, refreshTokens,
          blacklistedTokens, nextTokenId, proc, nreq, nfail, last, delivered, issuedRefresh,
          rotated, revokedByAll, blacklistedEver, unswept, call>>

config == <<JWT_SECRET, REFRESH_SECRET, TZ>>
tables == <<users, refreshTokens, blacklistedTokens>>
history == <<delivered, issuedRefresh, rotated, revokedByAll, blacklistedEver, unswept>>

(***************************************************************************)
(* JSON Web Tokens (jsonwebtoken, HS256).  A token is known by the secret  *)
(* that signed it and by its payload; a string that is no JWT is Garbage.  *)
(* Two tokens signed in the same second over the same claims are the same  *)
(* string.                                                                 *)
(***************************************************************************)
ACCESS_TOKEN_EXPIRES_IN == 15 * 60
REFRESH_TOKEN_EXPIRES_IN == 7 * 24 * 60 * 60

NoToken ==
    [typ |-> "none", key |-> "", userId |-> 0, tokenId |-> 0, email |-> "",
     role |-> "", iat |-> 0, exp |-> 0]
Garbage == [NoToken EXCEPT !.typ = "garbage"]

\* jwt.sign(claims, secret, {expiresIn}) at time t
JwtSign(claims, secret, expiresIn, t) ==
    [typ |-> "jwt", key |-> secret, userId |-> claims.userId,
     tokenId |-> claims.tokenId, email |-> claims.email, role |-> claims.role,
     iat |-> t, exp |-> t + expiresIn]

\* jwt.verify(token, secret) at time t does not throw
JwtVerifies(token, secret, t) ==
    /\ token.typ = "jwt"
    /\ token.key = secret
    /\ ~(t >= token.exp)

\* The decoded payload; null is NullPayload.
NullPayload ==
    [userId |-> 0, tokenId |-> 0, email |-> "", role |-> "", iat |-> 0, exp |-> 0]
PayloadOf(token) ==
    [userId |-> token.userId, tokenId |-> token.tokenId, email |-> token.email,
     role |-> token.role, iat |-> token.iat, exp |-> token.exp]

\* An access token whose userId claim is not the id of the user it is signed for.
generateAccessToken_OtherId(user, t) ==
    JwtSign([userId |-> user.id + 1, tokenId |-> 0, email |-> user.email,
             role |-> user.role],
            JWT_SECRET, ACCESS_TOKEN_EXPIRES_IN, t)

generateAccessToken(user, t) ==
    JwtSign([userId |-> user.id, tokenId |-> 0, email |-> user.email, role |-> user.role],
            JWT_SECRET, ACCESS_TOKEN_EXPIRES_IN, t)

\* Verification that still accepts the token in the second of its exp.
verifyAccessToken_Lenient(token, t) ==
    IF token.typ = "jwt" /\ token.key = JWT_SECRET /\ ~(t > token.exp)
    THEN PayloadOf(token)
    ELSE NullPayload

verifyAccessToken(token, t) ==
    IF JwtVerifies(token, JWT_SECRET, t) THEN PayloadOf(token) ELSE NullPayload

(***************************************************************************)
(* The store (storage.ts, DatabaseStorage): each operator is one SQL       *)
(* statement on a table value.                                             *)
(***************************************************************************)
NoUser ==
    [id |-> 0, name |-> "", email |-> "", role |-> "",
     password |-> <<>>]
NoRow == [userId |-> 0, token |-> 0, expiresAt |-> 0]

getUser(id) ==
    IF \E u \in users : u.id = id THEN CHOOSE u \in users : u.id = id ELSE NoUser

getUserByEmail(email) ==
    IF \E u \in users : u.email = email THEN CHOOSE u \in users : u.email = email
    ELSE NoUser

\* The row createUser would insert: id gen_random_uuid(), role "student".
NewUser(name, email, password) ==
    [id |-> Cardinality(users) + 1, name |-> name, email |-> email, role |-> "student",
     password |-> password]

\* An insert that replaces the rows the user already has (one row per user).
createRefreshToken_Upsert(table, tokenData) ==
    {r \in table : r.userId # tokenData.userId} \cup {tokenData}

createRefreshToken(table, tokenData) == table \cup {tokenData}

getRefreshToken(table, tokenId, userId) ==
    IF \E r \in table : r.token = tokenId /\ r.userId = userId
    THEN CHOOSE r \in table : r.token = tokenId /\ r.userId = userId
    ELSE NoRow

\* A delete whose filter compares the token column with the user id: it matches no row.
revokeRefreshToken_WrongColumn(table, tokenId, userId) ==
    {r \in table : ~(r.token = userId /\ r.userId = tokenId /\ r.token # r.userId)}

\* A delete whose filter has lost the comparison of the token column: it removes
\* every row of the user.
revokeRefreshToken_ByUser(table, tokenId, userId) == {r \in table : ~(r.userId = userId)}

revokeRefreshToken(table, tokenId, userId) ==
    {r \in table : ~(r.token = tokenId /\ r.userId = userId)}

\* The delete with its filter negated: it removes the rows of every other user.
revokeAllRefreshTokens_Others(table, userId) == {r \in table : r.userId = userId}

revokeAllRefreshTokens(table, userId) == {r \in table : ~(r.userId = userId)}

isTokenBlacklisted(table, token) == \E b \in table : b.token = token

\* The insert on a table whose token column is not unique.
blacklistToken_NoUnique(table, tokenData, t) ==
    table \cup {[token |-> tokenData.token, expiresAt |-> tokenData.expiresAt,
                 createdAt |-> t]}

\* storage.blacklistToken at time t: the insert of tokenData, createdAt defaultNow();
\* blacklisted_tokens.token is unique, and the insert of a token that has a row
\* throws and leaves the table as it is.
blacklistToken(table, tokenData, t) ==
    IF \E b \in table : b.token = tokenData.token
    THEN table
    ELSE table \cup {[token |-> tokenData.token, expiresAt |-> tokenData.expiresAt,
                      createdAt |-> t]}

\* The delete with its comparison turned round: it removes the rows still to expire.
cleanupExpired_Inverted(table, t) == {r \in table : r.expiresAt < t}

\* The delete with lte in place of lt: it also removes the rows that expire at t.
cleanupExpired_Inclusive(table, t) == {r \in table : ~(r.expiresAt <= t)}

cleanupExpired(table, t) == {r \in table : ~(r.expiresAt < t)}

(***************************************************************************)
(* jwt.ts: refresh tokens.                                                 *)
(***************************************************************************)
\* A zone whose offset from UTC never changes.
UTC == [at |-> 0, shift |-> 0]

\* The offset of local time from UTC at time t, less the offset at start-up: the
\* clocks of the zone are put forward (shift > 0) or back (shift < 0) at time TZ.at.
LocalOffset(t) == IF TZ.shift # 0 /\ t >= TZ.at THEN TZ.shift ELSE 0

\* The time whose local reading is wall.  A reading the zone skips, and one it has
\* twice, is taken with the offset before the change.
FromLocal(wall) ==
    IF TZ.shift = 0 \/ wall < TZ.at THEN wall
    ELSE IF wall - TZ.shift >= TZ.at THEN wall - TZ.shift
    ELSE wall

\* expiresAt = new Date(); expiresAt.setDate(expiresAt.getDate() + 7): the same local
\* reading of the clock, seven calendar days on.
AddSevenDays(t) == FromLocal(t + LocalOffset(t) + 7 * 24 * 60 * 60)

\* The record with an expiry of seven times twenty-four hours in every zone.
MintRefreshToken_Elapsed(userId, tokenId, t) ==
    [token |-> JwtSign([userId |-> userId, tokenId |-> tokenId, email |-> "", role |-> ""],
                       REFRESH_SECRET, REFRESH_TOKEN_EXPIRES_IN, t),
     row |-> [userId |-> userId, token |-> tokenId,
              expiresAt |-> t + REFRESH_TOKEN_EXPIRES_IN]]

\* generateRefreshToken up to its await: the signed token and the row to insert.
MintRefreshToken(userId, tokenId, t) ==
    [token |-> JwtSign([userId |-> userId, tokenId |-> tokenId, email |-> "", role |-> ""],
                       REFRESH_SECRET, REFRESH_TOKEN_EXPIRES_IN, t),
     row |-> [userId |-> userId, token |-> tokenId, expiresAt |-> AddSevenDays(t)]]

\* The row lookup without the comparison of expiresAt.
StoredTokenValid_NoExpiry(token, table, t, ok) ==
    ok /\ getRefreshToken(table, token.tokenId, token.userId) # NoRow

\* verifyRefreshToken after its await: the row of the token's tokenId and userId is
\* there and has not expired at time t.  ok is FALSE when storage.getRefreshToken throws.
StoredTokenValid(token, table, t, ok) ==
    /\ ok
    /\ LET storedToken == getRefreshToken(table, token.tokenId, token.userId)
       IN  ~(storedToken = NoRow \/ storedToken.expiresAt < t)

\* verifyRefreshToken called and answered at time t.
verifyRefreshToken(token, table, t, ok) ==
    IF JwtVerifies(token, REFRESH_SECRET, t) /\ StoredTokenValid(token, table, t, ok)
    THEN PayloadOf(token)
    ELSE NullPayload

(***************************************************************************)
(* The verifiers as calls: what comes back to the caller, a value returned *)
(* or an exception thrown.  jwt.verify throws on every token it rejects.   *)
(***************************************************************************)
Returned(value) == [threw |-> FALSE, value |-> value]
Thrown == [threw |-> TRUE, value |-> NullPayload]

\* try { return jwt.verify(token, JWT_SECRET) } catch { return null }
verifyAccessTokenCall(token, t) ==
    LET verified == IF JwtVerifies(token, JWT_SECRET, t) THEN Returned(PayloadOf(token))
                    ELSE Thrown
    IN  IF verified.threw THEN Returned(NullPayload) ELSE verified

\* verifyRefreshToken whose try ends before the lookup of the record.
verifyRefreshTokenCall_LookupOutside(token, table, t, ok) ==
    LET verified == IF JwtVerifies(token, REFRESH_SECRET, t) THEN Returned(PayloadOf(token))
                    ELSE Thrown
        storedToken == getRefreshToken(table, token.tokenId, token.userId)
    IN  IF verified.threw THEN Returned(NullPayload)
        ELSE IF ~ok THEN Thrown
        ELSE IF storedToken = NoRow \/ storedToken.expiresAt < t THEN Returned(NullPayload)
        ELSE verified

\* try { jwt.verify; await storage.getRefreshToken; the two tests } catch { return null }
\* ok is FALSE when storage.getRefreshToken throws.
verifyRefreshTokenCall(token, table, t, ok) ==
    LET verified == IF JwtVerifies(token, REFRESH_SECRET, t) THEN Returned(PayloadOf(token))
                    ELSE Thrown
        lookedUp == IF ok THEN Returned(getRefreshToken(table, token.tokenId, token.userId))
                    ELSE Thrown
    IN  IF verified.threw THEN Returned(NullPayload)
        ELSE IF lookedUp.threw THEN Returned(NullPayload)
        ELSE IF lookedUp.value = NoRow \/ lookedUp.value.expiresAt < t
        THEN Returned(NullPayload)
        ELSE verified

(***************************************************************************)
(* Requests and responses.                                                 *)
(***************************************************************************)
NoBody == [name |-> "", email |-> "", password |-> "", confirmPassword |-> ""]
NoUpdates == [email |-> "", role |-> ""]
NoReq ==
    [authorization |-> NoToken, cookieAccess |-> NoToken, cookieRefresh |-> NoToken,
     bodyRefresh |-> NoToken, body |-> NoBody, sessionUser |-> 0, updates |-> NoUpdates]

NoUserBody == [id |-> 0, name |-> "", email |-> "", role |-> ""]
\* The user object handed on whole, password included.
WithoutPassword_Whole(user) == user

\* const { password: _, ...userWithoutPassword } = user
WithoutPassword(user) ==
    [id |-> user.id, name |-> user.name, email |-> user.email, role |-> user.role]

\* A response: cookies is "set" (setTokenCookies), "cleared" (clearTokenCookies) or "kept".
Res(status, error, code) ==
    [status |-> status, error |-> error, code |-> code, message |-> "", details |-> {},
     cookies |-> "kept", access |-> NoToken, refresh |-> NoToken, user |-> NoUserBody]
NoRes == Res(0, "", "")
Cleared(res) == [res EXCEPT !.cookies = "cleared"]

NoMint == [access |-> NoToken, refresh |-> NoToken, row |-> NoRow]

IdleProc ==
    [pc |-> "idle", kind |-> "none", req |-> NoReq, user |-> NoUser,
     payload |-> NullPayload, hashed |-> <<>>, mint |-> NoMint, cut |-> 0, deleted |-> 0,
     inserted |-> FALSE, res |-> NoRes, at |-> 0]

\* A request that has been answered, and when.
Done(kind, req, res) ==
    [IdleProc EXCEPT !.pc = "done", !.kind = kind, !.req = req, !.res = res, !.at = now]

\* A process is free for the next request.
CanStart(p) ==
    /\ proc[p].pc = "idle"
    /\ p = "p2" => proc["p1"].pc # "idle"
    /\ nreq < MaxRequests

\* Process p moves to rec; a process that has answered is free again, and what it
\* answered is kept in last.
Step(p, rec) ==
    /\ proc' = [proc EXCEPT ![p] = IF rec.pc = "done" THEN IdleProc ELSE rec]
    /\ last' = IF rec.pc = "done" THEN rec ELSE last
    /\ IF rec.pc = "done" /\ rec.res.status >= 400
       THEN nfail < MaxFailures /\ nfail' = nfail + 1
       ELSE nfail' = nfail

\* An access token for a user id no row of users has.
Orphan ==
    JwtSign([userId |-> 99, tokenId |-> 0, email |-> "ghost@example.com", role |-> "student"],
            JWT_SECRET, ACCESS_TOKEN_EXPIRES_IN, 0)

\* What a client may send where a token is expected: nothing, a string that is no
\* JWT, a token a response has delivered.  The cookies hold tokens of their own kind
\* (the server set them); the Authorization header and the request body may hold
\* either kind.
HeaderInputs == delivered \cup {NoToken, Garbage, Orphan}
AccessCookieInputs == {t \in delivered : t.tokenId = 0} \cup {NoToken}
RefreshCookieInputs == {t \in delivered : t.tokenId # 0} \cup {NoToken}
BodyInputs == delivered \cup {NoToken}
\* The Authorization header and the accessToken cookie of a request: a header only,
\* a cookie only, neither, or a delivered access token in the header next to a
\* cookie that differs from it (a client can overwrite its cookie with any string).
Credentials ==
    {[authorization |-> h, cookieAccess |-> NoToken] : h \in HeaderInputs}
        \cup {[authorization |-> NoToken, cookieAccess |-> c] : c \in AccessCookieInputs}
        \cup UNION {{[authorization |-> h, cookieAccess |-> c] :
                        c \in (delivered \cup {Garbage}) \ {h}} :
                     h \in AccessCookieInputs \ {NoToken}}

\* No function has been called by itself.
NoCall == [fn |-> "none"]

\* The state after start-up with the secrets c in the zone tz, on an empty database.
InitWith(c, tz) ==
    /\ now = 0
    /\ ticks = 0
    /\ JWT_SECRET = c.jwt
    /\ REFRESH_SECRET = c.refresh
    /\ TZ = tz
    /\ users = {}
    /\ refreshTokens = {}
    /\ blacklistedTokens = {}
    /\ nextTokenId = 1
    /\ proc = [p \in Procs |-> IdleProc]
    /\ nreq = 0
    /\ nfail = 0
    /\ last = IdleProc
    /\ delivered = {}
    /\ issuedRefresh = {}
    /\ rotated = [i \in 1..MaxRequests |-> 0]
    /\ revokedByAll = {}
    /\ blacklistedEver = {}
    /\ unswept = [refreshTokens |-> {}, blacklistedTokens |-> {}]
    /\ call = NoCall

Init == InitWith(FallbackSecrets, UTC)

\* Time passes: by one of the amounts.
Advance(amounts) ==
    /\ ticks < MaxTicks
    /\ \E d \in amounts : now' = now + d
    /\ ticks' = ticks + 1
    /\ UNCHANGED <<config, call, tables, nextTokenId, proc, nreq, nfail, last, history>>

\* To the middle and to the end of an access token's life, to the end of a refresh
\* token's and past it.
Tick ==
    Advance({TickSeconds, ACCESS_TOKEN_EXPIRES_IN, REFRESH_TOKEN_EXPIRES_IN,
             REFRESH_TOKEN_EXPIRES_IN + TickSeconds})

(***************************************************************************)
(* authenticateToken (jwt-auth.ts), statement by statement: the lookup of  *)
(* the blacklist with the verification that follows it, and the lookup of  *)
(* the user.  threw: the statement on the store throws.                    *)
(***************************************************************************)
FinalToken(req) ==
    IF req.authorization # NoToken THEN req.authorization ELSE req.cookieAccess

\* The middleware answers 401 and does not call next().
Rejected(error, code) ==
    [next |-> FALSE, payload |-> NullPayload, user |-> NoUser, res |-> Res(401, error, code)]

\* The first part with jwt.verify moved in front of the blacklist lookup.
authenticateTokenVerify_VerifyFirst(req, threw) ==
    LET finalToken == FinalToken(req)
        payload == verifyAccessToken(finalToken, now)
    IN  IF finalToken = NoToken THEN Rejected("Access token is required", "TOKEN_MISSING")
        ELSE IF payload = NullPayload
        THEN Rejected("Invalid or expired token", "TOKEN_INVALID")
        ELSE IF threw THEN Rejected("Authentication failed", "AUTH_ERROR")
        ELSE IF isTokenBlacklisted(blacklistedTokens, finalToken)
        THEN Rejected("Token has been revoked", "TOKEN_REVOKED")
        ELSE [next |-> TRUE, payload |-> payload, user |-> NoUser, res |-> NoRes]

\* authenticateToken up to its second await: the token of the request, await
\* isTokenBlacklisted, then verifyAccessToken at the time the lookup has answered.
authenticateTokenVerify(req, threw) ==
    LET finalToken == FinalToken(req)
        payload == verifyAccessToken(finalToken, now)
    IN  IF finalToken = NoToken THEN Rejected("Access token is required", "TOKEN_MISSING")
        ELSE IF threw THEN Rejected("Authentication failed", "AUTH_ERROR")
        ELSE IF isTokenBlacklisted(blacklistedTokens, finalToken)
        THEN Rejected("Token has been revoked", "TOKEN_REVOKED")
        ELSE IF payload = NullPayload
        THEN Rejected("Invalid or expired token", "TOKEN_INVALID")
        ELSE [next |-> TRUE, payload |-> payload, user |-> NoUser, res |-> NoRes]

\* authenticateToken from its second await: storage.getUser(payload.userId).
authenticateTokenUser(payload, threw) ==
    LET user == getUser(payload.userId)
    IN  IF threw THEN Rejected("Authentication failed", "AUTH_ERROR")
        ELSE IF user = NoUser THEN Rejected("User not found", "USER_NOT_FOUND")
        ELSE [next |-> TRUE, payload |-> payload, user |-> user, res |-> NoRes]

\* authenticateToken with both of its statements answered in the present state.
\* fail = k: the k-th statement throws; fail = 0: none does.
authenticateToken(req, fail) ==
    LET verified == authenticateTokenVerify(req, fail = 1)
        found == authenticateTokenUser(verified.payload, fail = 2)
    IN  IF ~verified.next
        THEN [next |-> FALSE, user |-> NoUser, res |-> verified.res]
        ELSE [next |-> found.next, user |-> found.user, res |-> found.res]

(***************************************************************************)
(* Token issue, shared by register, login and refresh: generateAccessToken *)
(* and generateRefreshToken up to its await run in the step that precedes  *)
(* them; the insert of the refresh row is a step of its own.               *)
(***************************************************************************)
MintPair(user, t) ==
    LET r == MintRefreshToken(user.id, nextTokenId, t)
    IN  [access |-> generateAccessToken(user, t), refresh |-> r.token, row |-> r.row]

\* The 2xx response of register, login and refresh.
Issued(status, message, user, mint) ==
    [Res(status, "", "") EXCEPT !.message = message, !.cookies = "set",
                                !.access = mint.access, !.refresh = mint.refresh,
                                !.user = WithoutPassword(user)]

(***************************************************************************)
(* POST /api/register                                                      *)
(***************************************************************************)
StrBody(body) ==
    [name |-> Str(body.name), email |-> Str(body.email),
     password |-> Str(body.password), confirmPassword |-> Str(body.confirmPassword)]

\* registrationValidationSchema.safeParse(req.body) and calculatePasswordStrength(password),
\* body by body: the issues reported and the analysis.
SafeParseRegistration == [body \in RegisterBodies |-> RegistrationIssues(StrBody(body))]
StrengthAnalysis ==
    [body \in RegisterBodies |-> calculatePasswordStrength(Str(body.password))]

\* Validation, storage.getUserByEmail and the strength check; hashPassword is called.
Register(p) ==
    /\ CanStart(p)
    /\ \E body \in RegisterBodies, fail \in {0, 1} :
        LET req == [NoReq EXCEPT !.body = body]
            issues == SafeParseRegistration[body]
            existingUser == getUserByEmail(body.email)
            strengthAnalysis == StrengthAnalysis[body]
        IN  Step(p, IF issues # {}
                THEN Done("register", req,
                          [Res(400, "Validation failed", "") EXCEPT !.details = issues])
                ELSE IF fail = 1
                THEN Done("register", req,
                          Res(500, "Internal server error", "REGISTRATION_ERROR"))
                ELSE IF existingUser # NoUser
                THEN Done("register", req, Res(409, "Email already registered", "EMAIL_EXISTS"))
                ELSE IF strengthAnalysis.strength \in {"very-weak", "weak"}
                THEN Done("register", req, Res(400, "Password is too weak", ""))
                ELSE [IdleProc EXCEPT !.pc = "register_hash", !.kind = "register",
                                      !.req = req])
    /\ nreq' = nreq + 1
    /\ UNCHANGED <<now, ticks, config, call, tables, nextTokenId, history>>

\* hashPassword has answered: the salt drawn, the key scrypt derived.
RegisterHash(p) ==
    /\ proc[p].pc = "register_hash"
    /\ \E salt \in Salts :
        Step(p, [proc[p] EXCEPT
                    !.pc = "register_createUser",
                    !.hashed = hashPassword(proc[p].req.body.password, salt)])
    /\ UNCHANGED <<now, ticks, config, call, tables, nextTokenId, nreq, history>>

\* storage.createUser (users.email is unique), then the tokens are signed.
RegisterCreateUser(p) ==
    /\ proc[p].pc = "register_createUser"
    /\ \E fail \in {0, 1} :
        LET body == proc[p].req.body
            user == NewUser(body.name, body.email, proc[p].hashed)
        IN  IF fail = 1 \/ \E u \in users : u.email = body.email
            THEN /\ Step(p, Done("register", proc[p].req,
                             Res(500, "Internal server error", "REGISTRATION_ERROR")))
                 /\ UNCHANGED <<users, nextTokenId>>
            ELSE /\ users' = users \cup {user}
                 /\ Step(p, [proc[p] EXCEPT !.pc = "register_issue", !.user = user,
                                         !.mint = MintPair(user, now)])
                 /\ nextTokenId' = nextTokenId + 1
    /\ UNCHANGED <<now, ticks, config, call, refreshTokens, blacklistedTokens, nreq, history>>

\* storage.createRefreshToken, then the response.
IssueStep(p, pcAt, kind, status, message, errorCode) ==
    /\ proc[p].pc = pcAt
    /\ \E fail \in {0, 1} :
        IF fail = 1
        THEN /\ Step(p, [Done(kind, proc[p].req,
                          IF kind = "refresh"
                          THEN Cleared(Res(500, "Internal server error", errorCode))
                          ELSE Res(500, "Internal server error", errorCode))
                        EXCEPT !.deleted = proc[p].deleted])
             /\ UNCHANGED <<refreshTokens, delivered, issuedRefresh, rotated, unswept>>
        ELSE /\ refreshTokens' = createRefreshToken(refreshTokens, proc[p].mint.row)
             /\ unswept' = [unswept EXCEPT
                                !.refreshTokens = createRefreshToken(@, proc[p].mint.row)]
             /\ issuedRefresh' = issuedRefresh \cup {proc[p].mint.refresh}
             /\ delivered' = delivered \cup {proc[p].mint.access, proc[p].mint.refresh}
             /\ rotated' = IF kind = "refresh"
                           THEN [rotated EXCEPT ![proc[p].payload.tokenId] = @ + 1]
                           ELSE rotated
             /\ Step(p, [Done(kind, proc[p].req,
                          Issued(status, message, proc[p].user, proc[p].mint))
                        EXCEPT !.deleted = proc[p].deleted, !.inserted = TRUE])
    /\ UNCHANGED <<now, ticks, config, call, users, blacklistedTokens, nextTokenId, nreq,
                   revokedByAll, blacklistedEver>>

RegisterIssue(p) ==
    IssueStep(p, "register_issue", "register", 201, "Account created successfully",
              "REGISTRATION_ERROR")

(***************************************************************************)
(* POST /api/login                                                         *)
(***************************************************************************)
\* loginValidationSchema.safeParse(req.body), body by body: the issues reported.
SafeParseLogin ==
    [b \in LoginBodies |-> LoginIssues([email |-> Str(b.email), password |-> Str(b.password)])]

\* The refusals of the handler.
LoginRefused(res) == [next |-> FALSE, user |-> NoUser, res |-> res]
InvalidCredentialsRes == Res(401, "Invalid credentials", "INVALID_CREDENTIALS")

\* The lookup with an answer of its own for an email no user has.
LoginCheck_UserNotFound(b, fail) ==
    LET issues == SafeParseLogin[b]
        user == getUserByEmail(b.email)
    IN  IF issues # {}
        THEN LoginRefused([Res(400, "Invalid input", "") EXCEPT !.details = issues])
        ELSE IF fail = 1
        THEN LoginRefused(Res(500, "Internal server error", "LOGIN_ERROR"))
        ELSE IF user = NoUser
        THEN LoginRefused(Res(404, "User not found", "USER_NOT_FOUND"))
        ELSE [next |-> TRUE, user |-> user, res |-> NoRes]

\* The handler up to the comparison of the passwords: validation, then
\* storage.getUserByEmail.
LoginCheck(b, fail) ==
    LET issues == SafeParseLogin[b]
        user == getUserByEmail(b.email)
    IN  IF issues # {}
        THEN LoginRefused([Res(400, "Invalid input", "") EXCEPT !.details = issues])
        ELSE IF fail = 1
        THEN LoginRefused(Res(500, "Internal server error", "LOGIN_ERROR"))
        ELSE IF user = NoUser
        THEN LoginRefused(InvalidCredentialsRes)
        ELSE [next |-> TRUE, user |-> user, res |-> NoRes]

\* comparePasswords(password, user.password) has answered, for the user read before.
LoginCompare(b, user) ==
    LET isPasswordValid == comparePasswords(b.password, user.password)
    IN  IF isPasswordValid = "throws"
        THEN LoginRefused(Res(500, "Internal server error", "LOGIN_ERROR"))
        ELSE IF isPasswordValid = "false"
        THEN LoginRefused(InvalidCredentialsRes)
        ELSE [next |-> TRUE, user |-> user, res |-> NoRes]

\* Validation and the lookup of the user; comparePasswords is called.
Login(p) ==
    /\ CanStart(p)
    /\ \E b \in LoginBodies, fail \in {0, 1} :
        LET req == [NoReq EXCEPT !.body = [NoBody EXCEPT !.email = b.email,
                                                        !.password = b.password]]
            r == LoginCheck(b, fail)
        IN  Step(p, IF r.next
                THEN [IdleProc EXCEPT !.pc = "login_compare", !.kind = "login",
                                      !.req = req, !.user = r.user]
                ELSE Done("login", req, r.res))
    /\ nreq' = nreq + 1
    /\ UNCHANGED <<now, ticks, config, call, tables, nextTokenId, history>>

\* scrypt has answered; the keys are compared and the tokens are signed.
LoginComparePasswords(p) ==
    /\ proc[p].pc = "login_compare"
    /\ LET r == LoginCompare(proc[p].req.body, proc[p].user)
       IN  IF r.next
           THEN /\ Step(p, [proc[p] EXCEPT !.pc = "login_issue",
                                           !.mint = MintPair(proc[p].user, now)])
                /\ nextTokenId' = nextTokenId + 1
           ELSE /\ Step(p, Done("login", proc[p].req, r.res))
                /\ UNCHANGED nextTokenId
    /\ UNCHANGED <<now, ticks, config, call, tables, nreq, history>>

LoginIssue(p) ==
    IssueStep(p, "login_issue", "login", 200, "Login successful", "LOGIN_ERROR")

(***************************************************************************)
(* POST /api/refresh                                                       *)
(***************************************************************************)
\* req.cookies?.refreshToken || req.body.refreshToken
PresentedRefreshToken(req) ==
    IF req.cookieRefresh # NoToken THEN req.cookieRefresh ELSE req.bodyRefresh

\* The refusals of the handler.
RefreshRefused(res) ==
    [next |-> FALSE, payload |-> NullPayload, user |-> NoUser, res |-> res]
RefreshInvalid ==
    RefreshRefused(Cleared(Res(401, "Invalid or expired refresh token",
                               "REFRESH_TOKEN_INVALID")))

\* The handler up to the first await: the token of the request, then the jwt.verify
\* of verifyRefreshToken at time t.
RefreshArrive(req, t) ==
    LET refreshToken == PresentedRefreshToken(req)
    IN  IF refreshToken = NoToken
        THEN RefreshRefused(Res(401, "Refresh token is required", "REFRESH_TOKEN_MISSING"))
        ELSE IF ~JwtVerifies(refreshToken, REFRESH_SECRET, t) THEN RefreshInvalid
        ELSE [next |-> TRUE, payload |-> PayloadOf(refreshToken), user |-> NoUser,
              res |-> NoRes]

\* verifyRefreshToken after its await, at time t; threw: storage.getRefreshToken throws.
RefreshStored(req, table, t, threw) ==
    LET refreshToken == PresentedRefreshToken(req)
    IN  IF ~StoredTokenValid(refreshToken, table, t, ~threw) THEN RefreshInvalid
        ELSE [next |-> TRUE, payload |-> PayloadOf(refreshToken), user |-> NoUser,
              res |-> NoRes]

\* storage.getUser(payload.userId)
RefreshUserLookup(payload, threw) ==
    LET user == getUser(payload.userId)
    IN  IF threw
        THEN RefreshRefused(Cleared(Res(500, "Internal server error", "REFRESH_ERROR")))
        ELSE IF user = NoUser
        THEN RefreshRefused(Cleared(Res(401, "User not found", "USER_NOT_FOUND")))
        ELSE [next |-> TRUE, payload |-> payload, user |-> user, res |-> NoRes]

\* The handler up to the revoke with its statements answered in the present state.
\* fail = 1: storage.getRefreshToken throws; fail = 2: storage.getUser throws.
RefreshCheck(req, fail) ==
    LET arrived == RefreshArrive(req, now)
        stored == RefreshStored(req, refreshTokens, now, fail = 1)
        found == RefreshUserLookup(stored.payload, fail = 2)
    IN  IF ~arrived.next THEN arrived
        ELSE IF ~stored.next THEN stored
        ELSE found

\* The request arrives.
Refresh(p) ==
    /\ CanStart(p)
    /\ \E c \in RefreshCookieInputs, b \in BodyInputs \cup {Garbage} :
        /\ c = NoToken \/ b = NoToken
        /\ LET req == [NoReq EXCEPT !.cookieRefresh = c, !.bodyRefresh = b]
               r == RefreshArrive(req, now)
           IN  Step(p, IF r.next
                   THEN [IdleProc EXCEPT !.pc = "refresh_verify", !.kind = "refresh",
                                         !.req = req]
                   ELSE Done("refresh", req, r.res))
    /\ nreq' = nreq + 1
    /\ UNCHANGED <<now, ticks, config, call, tables, nextTokenId, history>>

\* storage.getRefreshToken has answered.
RefreshVerify(p) ==
    /\ proc[p].pc = "refresh_verify"
    /\ \E fail \in {0, 1} :
        LET r == RefreshStored(proc[p].req, refreshTokens, now, fail = 1)
        IN  Step(p, IF r.next
                THEN [proc[p] EXCEPT !.pc = "refresh_user", !.payload = r.payload]
                ELSE Done("refresh", proc[p].req, r.res))
    /\ UNCHANGED <<now, ticks, config, call, tables, nextTokenId, nreq, history>>

\* storage.getUser has answered.
RefreshUser(p) ==
    /\ proc[p].pc = "refresh_user"
    /\ \E fail \in {0, 1} :
        LET r == RefreshUserLookup(proc[p].payload, fail = 1)
        IN  Step(p, IF r.next
                THEN [proc[p] EXCEPT !.pc = "refresh_revoke", !.user = r.user]
                ELSE Done("refresh", proc[p].req, r.res))
    /\ UNCHANGED <<now, ticks, config, call, tables, nextTokenId, nreq, history>>

\* revokeRefreshToken(payload.tokenId, payload.userId), then the new pair is signed.
RefreshRevoke(p) ==
    /\ proc[p].pc = "refresh_revoke"
    /\ \E fail \in {0, 1} :
        IF fail = 1
        THEN /\ Step(p, Done("refresh", proc[p].req,
                         Cleared(Res(500, "Internal server error", "REFRESH_ERROR"))))
             /\ UNCHANGED <<refreshTokens, nextTokenId, unswept>>
        ELSE /\ refreshTokens' = revokeRefreshToken(refreshTokens, proc[p].payload.tokenId,
                                                    proc[p].payload.userId)
             /\ unswept' = [unswept EXCEPT
                                !.refreshTokens =
                                    revokeRefreshToken(@, proc[p].payload.tokenId,
                                                       proc[p].payload.userId)]
             /\ Step(p, [proc[p] EXCEPT
                    !.pc = "refresh_issue",
                    !.deleted = Cardinality(refreshTokens) - Cardinality(refreshTokens'),
                    !.mint = MintPair(proc[p].user, now)])
             /\ nextTokenId' = nextTokenId + 1
    /\ UNCHANGED <<now, ticks, config, call, users, blacklistedTokens, nreq, delivered,
                   issuedRefresh, rotated, revokedByAll, blacklistedEver>>

RefreshIssue(p) ==
    IssueStep(p, "refresh_issue", "refresh", 200, "Tokens refreshed successfully",
              "REFRESH_ERROR")

(***************************************************************************)
(* The routes behind authenticateToken: POST /api/logout, POST             *)
(* /api/logout-all and GET /api/user.                                      *)
(***************************************************************************)
\* req.cookies?.accessToken || req.headers.authorization?.split(' ')[1]
LogoutAccessToken(req) ==
    IF req.cookieAccess # NoToken THEN req.cookieAccess ELSE req.authorization

LogoutOk == Cleared([Res(200, "", "") EXCEPT !.message = "Logout successful"])

\* The logout handler from the point where blacklistToken has returned: with no
\* refresh cookie, or one jwt.verify rejects, it answers; else it awaits the row lookup.
AfterBlacklist(req, user) ==
    IF req.cookieRefresh # NoToken /\ JwtVerifies(req.cookieRefresh, REFRESH_SECRET, now)
    THEN [IdleProc EXCEPT !.pc = "logout_verify", !.kind = "logout", !.req = req,
                          !.user = user]
    ELSE Done("logout", req, LogoutOk)

\* The entry with the time the token was issued for its expiry.
BlacklistEntry_IssuedAt(token) == [token |-> token, expiresAt |-> token.iat]

\* blacklistToken: the row it inserts, {token, expiresAt: new Date(payload.exp * 1000)}.
BlacklistEntry(token) == [token |-> token, expiresAt |-> token.exp]

\* blacklistToken which takes every string for a token to store.
BlacklistDecodes_Always(token, t) == token # NoToken

\* blacklistToken, its jwt.verify at time t: the token decodes (payload.exp is set in
\* every token of the server), so that an entry is to be stored.
BlacklistDecodes(token, t) == JwtVerifies(token, JWT_SECRET, t)

\* What the route does once authenticateToken has called next() with req.user set:
\* the handler up to its first await.
Handler(kind, req, user) ==
    IF kind = "logout"
    THEN IF BlacklistDecodes(LogoutAccessToken(req), now)
         THEN [IdleProc EXCEPT !.pc = "logout_blacklist", !.kind = "logout", !.req = req,
                               !.user = user]
         ELSE AfterBlacklist(req, user)
    ELSE IF kind = "logoutAll"
    THEN [IdleProc EXCEPT !.pc = "logoutAll_revoke", !.kind = "logoutAll", !.req = req,
                          !.user = user]
    ELSE Done("user", req, [Res(200, "", "") EXCEPT !.user = WithoutPassword(user)])

\* The request req to a route behind authenticateToken arrives; isTokenBlacklisted
\* answers.
Authenticate(p, kind, req) ==
    /\ \E fail \in {0, 1} :
        LET a == authenticateTokenVerify(req, fail = 1)
        IN  Step(p, IF a.next
                THEN [IdleProc EXCEPT !.pc = "authenticate_user", !.kind = kind,
                                      !.req = req, !.payload = a.payload]
                ELSE Done(kind, req, a.res))
    /\ nreq' = nreq + 1
    /\ UNCHANGED <<now, ticks, config, call, tables, nextTokenId, history>>

\* storage.getUser answers; the middleware calls next() and the handler runs up to
\* its first await.
AuthenticateUser(p) ==
    /\ proc[p].pc = "authenticate_user"
    /\ \E fail \in {0, 1} :
        LET a == authenticateTokenUser(proc[p].payload, fail = 1)
        IN  Step(p, IF a.next THEN Handler(proc[p].kind, proc[p].req, a.user)
                ELSE Done(proc[p].kind, proc[p].req, a.res))
    /\ UNCHANGED <<now, ticks, config, call, tables, nextTokenId, nreq, history>>

Logout(p) ==
    /\ CanStart(p)
    /\ \E cred \in Credentials, r \in RefreshCookieInputs :
        Authenticate(p, "logout", [NoReq EXCEPT !.authorization = cred.authorization,
                                                !.cookieAccess = cred.cookieAccess,
                                                !.cookieRefresh = r])

\* storage.blacklistToken (blacklisted_tokens.token is unique); blacklistToken swallows
\* what it throws.
LogoutBlacklist(p) ==
    /\ proc[p].pc = "logout_blacklist"
    /\ \E fail \in {0, 1} :
        LET token == LogoutAccessToken(proc[p].req)
        IN  IF fail = 1
            THEN UNCHANGED <<blacklistedTokens, blacklistedEver, unswept>>
            ELSE /\ blacklistedTokens' =
                        blacklistToken(blacklistedTokens, BlacklistEntry(token), now)
                 /\ unswept' = [unswept EXCEPT
                        !.blacklistedTokens = blacklistToken(@, BlacklistEntry(token), now)]
                 /\ blacklistedEver' = blacklistedEver \cup {token}
    /\ Step(p, AfterBlacklist(proc[p].req, proc[p].user))
    /\ UNCHANGED <<now, ticks, config, call, users, refreshTokens, nextTokenId, nreq,
                   delivered, issuedRefresh, rotated, revokedByAll>>

\* verifyRefreshToken after its await.
LogoutVerify(p) ==
    /\ proc[p].pc = "logout_verify"
    /\ \E fail \in {0, 1} :
        Step(p, IF StoredTokenValid(proc[p].req.cookieRefresh, refreshTokens, now, fail = 0)
            THEN [proc[p] EXCEPT !.pc = "logout_revoke",
                                 !.payload = PayloadOf(proc[p].req.cookieRefresh)]
            ELSE Done("logout", proc[p].req, LogoutOk))
    /\ UNCHANGED <<now, ticks, config, call, tables, nextTokenId, nreq, history>>

\* revokeRefreshToken(payload.tokenId, payload.userId)
LogoutRevoke(p) ==
    /\ proc[p].pc = "logout_revoke"
    /\ \E fail \in {0, 1} :
        IF fail = 1
        THEN /\ Step(p, Done("logout", proc[p].req,
                         Cleared(Res(500, "Internal server error", "LOGOUT_ERROR"))))
             /\ UNCHANGED <<refreshTokens, unswept>>
        ELSE /\ refreshTokens' = revokeRefreshToken(refreshTokens, proc[p].payload.tokenId,
                                                    proc[p].payload.userId)
             /\ unswept' = [unswept EXCEPT
                                !.refreshTokens =
                                    revokeRefreshToken(@, proc[p].payload.tokenId,
                                                       proc[p].payload.userId)]
             /\ Step(p, Done("logout", proc[p].req, LogoutOk))
    /\ UNCHANGED <<now, ticks, config, call, users, blacklistedTokens, nextTokenId, nreq,
                   delivered, issuedRefresh, rotated, revokedByAll, blacklistedEver>>

LogoutAll(p) ==
    /\ CanStart(p)
    /\ \E cred \in Credentials :
        Authenticate(p, "logoutAll", [NoReq EXCEPT !.authorization = cred.authorization,
                                                   !.cookieAccess = cred.cookieAccess])

\* revokeAllRefreshTokens(req.user.id)
LogoutAllRevoke(p) ==
    /\ proc[p].pc = "logoutAll_revoke"
    /\ \E fail \in {0, 1} :
        IF fail = 1
        THEN /\ Step(p, Done("logoutAll", proc[p].req,
                         Res(500, "Internal server error", "LOGOUT_ALL_ERROR")))
             /\ UNCHANGED <<refreshTokens, revokedByAll, unswept>>
        ELSE /\ refreshTokens' = revokeAllRefreshTokens(refreshTokens, proc[p].user.id)
             /\ unswept' = [unswept EXCEPT
                                !.refreshTokens = revokeAllRefreshTokens(@, proc[p].user.id)]
             /\ revokedByAll' =
                    revokedByAll \cup {t \in issuedRefresh : t.userId = proc[p].user.id}
             /\ Step(p, Done("logoutAll", proc[p].req,
                         Cleared([Res(200, "", "") EXCEPT
                                     !.message = "Logged out from all devices successfully"])))
    /\ UNCHANGED <<now, ticks, config, call, users, blacklistedTokens, nextTokenId, nreq,
                   delivered, issuedRefresh, rotated, blacklistedEver>>

GetUser(p) ==
    /\ CanStart(p)
    /\ \E cred \in Credentials :
        Authenticate(p, "user", [NoReq EXCEPT !.authorization = cred.authorization,
                                              !.cookieAccess = cred.cookieAccess])

(***************************************************************************)
(* optionalAuth: the middleware of a route that also serves anonymous      *)
(* callers.                                                                *)
(***************************************************************************)
\* The first part without the blacklist lookup.
optionalAuthVerify_NoBlacklist(req, threw) ==
    LET finalToken == FinalToken(req)
        payload == verifyAccessToken(finalToken, now)
    IN  IF finalToken = NoToken \/ threw \/ payload = NullPayload
        THEN [lookup |-> FALSE, payload |-> NullPayload]
        ELSE [lookup |-> TRUE, payload |-> payload]

\* optionalAuth up to its second await: isTokenBlacklisted for a request that has a
\* token, then verifyAccessToken.  lookup: storage.getUser is awaited next; otherwise
\* next() is called with req.user unset.  threw: isTokenBlacklisted throws.
optionalAuthVerify(req, threw) ==
    LET finalToken == FinalToken(req)
        payload == verifyAccessToken(finalToken, now)
    IN  IF finalToken = NoToken THEN [lookup |-> FALSE, payload |-> NullPayload]
        ELSE IF threw THEN [lookup |-> FALSE, payload |-> NullPayload]
        ELSE IF isTokenBlacklisted(blacklistedTokens, finalToken)
        THEN [lookup |-> FALSE, payload |-> NullPayload]
        ELSE IF payload = NullPayload THEN [lookup |-> FALSE, payload |-> NullPayload]
        ELSE [lookup |-> TRUE, payload |-> payload]

\* optionalAuth from its second await: req.user after storage.getUser; threw: it throws.
optionalAuthUser(payload, threw) ==
    IF threw THEN NoUser ELSE getUser(payload.userId)

\* optionalAuth with both of its statements answered in the present state.
\* fail = 1: isTokenBlacklisted throws; fail = 2: storage.getUser throws; the catch
\* calls next().
optionalAuth(req, fail) ==
    LET verified == optionalAuthVerify(req, fail = 1)
    IN  [next |-> TRUE,
         user |-> IF verified.lookup THEN optionalAuthUser(verified.payload, fail = 2)
                  ELSE NoUser,
         res |-> NoRes]

\* A request to a route behind optionalAuth arrives; isTokenBlacklisted answers.  What
\* the middleware leaves in req.user is kept.
OptionalAuth(p) ==
    /\ CanStart(p)
    /\ \E cred \in Credentials, fail \in {0, 1} :
        LET req == [NoReq EXCEPT !.authorization = cred.authorization,
                                 !.cookieAccess = cred.cookieAccess]
            o == optionalAuthVerify(req, fail = 1)
        IN  Step(p, IF o.lookup
                THEN [IdleProc EXCEPT !.pc = "optional_user", !.kind = "optional",
                                      !.req = req, !.payload = o.payload]
                ELSE Done("optional", req, NoRes))
    /\ nreq' = nreq + 1
    /\ UNCHANGED <<now, ticks, config, call, tables, nextTokenId, history>>

\* storage.getUser answers; next() is called.
OptionalAuthUser(p) ==
    /\ proc[p].pc = "optional_user"
    /\ \E fail \in {0, 1} :
        Step(p, [Done("optional", proc[p].req, NoRes) EXCEPT
                    !.user = optionalAuthUser(proc[p].payload, fail = 1)])
    /\ UNCHANGED <<now, ticks, config, call, tables, nextTokenId, nreq, history>>

(***************************************************************************)
(* PUT /api/profile (routes.ts), from the point where its middleware has   *)
(* set req.user to the user of the session.                                *)
(***************************************************************************)
\* req.body of PUT /api/profile after the handler's deletes; "" is a field not sent.
ProfileUpdates ==
    {[email |-> "eve@example.com", role |-> ""],
     [email |-> "", role |-> "admin"]}

ProfileFailed == [Res(500, "", "") EXCEPT !.message = "Failed to update profile"]

\* storage.updateUser, its update: the columns sent, of the row with the id.
updateUser(table, id, updates) ==
    {IF u.id # id THEN u
     ELSE [u EXCEPT !.email = IF updates.email # "" THEN updates.email ELSE @,
                    !.role = IF updates.role # "" THEN updates.role ELSE @] : u \in table}

\* The handler up to the update: storage.updateUser awaits getUser first when the
\* updates carry one of the profile fields (email is one).
UpdateProfile(p) ==
    /\ CanStart(p)
    /\ \E u \in users, updates \in ProfileUpdates, fail \in {0, 1} :
        LET req == [NoReq EXCEPT !.sessionUser = u.id, !.updates = updates]
        IN  Step(p, IF updates.email # "" /\ fail = 1
                THEN Done("profile", req, ProfileFailed)
                ELSE [IdleProc EXCEPT !.pc = "profile_update", !.kind = "profile",
                                      !.req = req])
    /\ nreq' = nreq + 1
    /\ UNCHANGED <<now, ticks, config, call, tables, nextTokenId, history>>

\* update users set ... where id = userId returning * (users.email is unique), then
\* the response: the row without its password.
UpdateProfileSet(p) ==
    /\ proc[p].pc = "profile_update"
    /\ \E fail \in {0, 1} :
        LET id == proc[p].req.sessionUser
            updates == proc[p].req.updates
            updated == updateUser(users, id, updates)
            updatedUser == IF \E u \in updated : u.id = id
                           THEN CHOOSE u \in updated : u.id = id
                           ELSE NoUser
        IN  IF \/ fail = 1
               \/ \E u \in users : u.id # id /\ updates.email # "" /\ u.email = updates.email
            THEN /\ Step(p, Done("profile", proc[p].req, ProfileFailed))
                 /\ UNCHANGED users
            ELSE /\ users' = updated
                 /\ Step(p, Done("profile", proc[p].req,
                             IF updatedUser = NoUser
                             THEN [Res(404, "", "") EXCEPT !.message = "User not found"]
                             ELSE [Res(200, "", "") EXCEPT
                                      !.user = WithoutPassword(updatedUser)]))
    /\ UNCHANGED <<now, ticks, config, call, refreshTokens, blacklistedTokens, nextTokenId,
                   nreq, history>>

(***************************************************************************)
(* cleanupExpiredTokens: two deletes against the time read at its start.   *)
(***************************************************************************)
\* The call: const now = new Date(); the first delete is sent.
Cleanup(p) ==
    /\ CanStart(p)
    /\ Step(p, [IdleProc EXCEPT !.pc = "cleanup_refresh", !.kind = "cleanup", !.cut = now])
    /\ nreq' = nreq + 1
    /\ UNCHANGED <<now, ticks, config, call, tables, nextTokenId, history>>

\* delete from refresh_tokens where expiresAt < now, with the time the call read; the
\* call ends where the statement throws.
CleanupRefresh(p) ==
    /\ proc[p].pc = "cleanup_refresh"
    /\ \E fail \in {0, 1} :
        IF fail = 1
        THEN /\ Step(p, Done("cleanup", NoReq, NoRes))
             /\ UNCHANGED refreshTokens
        ELSE /\ refreshTokens' = cleanupExpired(refreshTokens, proc[p].cut)
             /\ Step(p, [proc[p] EXCEPT !.pc = "cleanup_blacklist"])
    /\ UNCHANGED <<now, ticks, config, call, users, blacklistedTokens, nextTokenId, nreq,
                   history>>

\* delete from blacklisted_tokens where expiresAt < now, with that same time.

CleanupBlacklist(p) ==
    /\ proc[p].pc = "cleanup_blacklist"
    /\ \E fail \in {0, 1} :
        blacklistedTokens' = IF fail = 1 THEN blacklistedTokens
                             ELSE cleanupExpired(blacklistedTokens, proc[p].cut)
    /\ Step(p, Done("cleanup", NoReq, NoRes))
    /\ UNCHANGED <<now, ticks, config, call, users, refreshTokens, nextTokenId, nreq, history>>

Next ==
    \/ Tick
    \/ \E p \in Procs :
        \/ Register(p)
        \/ RegisterHash(p)
        \/ RegisterCreateUser(p)
        \/ RegisterIssue(p)
        \/ Login(p)
        \/ LoginComparePasswords(p)
        \/ LoginIssue(p)
        \/ Refresh(p)
        \/ RefreshVerify(p)
        \/ RefreshUser(p)
        \/ RefreshRevoke(p)
        \/ RefreshIssue(p)
        \/ Logout(p)
        \/ LogoutAll(p)
        \/ GetUser(p)
        \/ AuthenticateUser(p)
        \/ LogoutBlacklist(p)
        \/ LogoutVerify(p)
        \/ LogoutRevoke(p)
        \/ LogoutAllRevoke(p)
        \/ OptionalAuth(p)
        \/ OptionalAuthUser(p)
        \/ UpdateProfile(p)
        \/ UpdateProfileSet(p)
        \/ Cleanup(p)
        \/ CleanupRefresh(p)
        \/ CleanupBlacklist(p)

Spec == Init /\ [][Next]_vars

(***************************************************************************)
(* Start-up under an environment: jwt.ts reads process.env.JWT_SECRET and  *)
(* process.env.REFRESH_SECRET once and falls back to its literals when a   *)
(* variable is unset or empty.  Registration, the current-user endpoint    *)
(* and refresh run on the secrets so configured.                           *)
(***************************************************************************)
Environments ==
    {[JWT_SECRET |-> Undefined, REFRESH_SECRET |-> Undefined],
     [JWT_SECRET |-> "", REFRESH_SECRET |-> "k-refresh"],
     [JWT_SECRET |-> "k-access", REFRESH_SECRET |-> "k-refresh"],
     [JWT_SECRET |-> "k-shared", REFRESH_SECRET |-> "k-shared"]}

\* process.env.X || "fallback..."
SecretsOf(env) ==
    [jwt |-> IF env.JWT_SECRET \in {Undefined, ""} THEN FallbackSecrets.jwt
             ELSE env.JWT_SECRET,
     refresh |-> IF env.REFRESH_SECRET \in {Undefined, ""} THEN FallbackSecrets.refresh
                 ELSE env.REFRESH_SECRET]

InitConfigured == \E env \in Environments : InitWith(SecretsOf(env), UTC)

NextConfigured ==
    \E p \in Procs :
        \/ Register(p)
        \/ RegisterHash(p)
        \/ RegisterCreateUser(p)
        \/ RegisterIssue(p)
        \/ GetUser(p)
        \/ AuthenticateUser(p)
        \/ Refresh(p)
        \/ RefreshVerify(p)
        \/ RefreshUser(p)
        \/ RefreshRevoke(p)
        \/ RefreshIssue(p)

SpecConfigured == InitConfigured /\ [][NextConfigured]_vars

(***************************************************************************)
(* Start-up in a time zone: UTC, a zone whose clocks are put forward an    *)
(* hour three and a half days after start-up, and one whose clocks are put *)
(* back an hour then.  Registration and refresh run in the zone.           *)
(***************************************************************************)
Zones ==
    {UTC,
     [at |-> 302400, shift |-> 3600],
     [at |-> 302400, shift |-> 0 - 3600]}

InitZoned == \E tz \in Zones : InitWith(FallbackSecrets, tz)

\* Time passes: to half an hour before the expiry of a token signed at the start.
TickZoned == Advance({TickSeconds, REFRESH_TOKEN_EXPIRES_IN - 1800})

NextZoned ==
    \/ TickZoned
    \/ \E p \in Procs :
        \/ Register(p)
        \/ RegisterHash(p)
        \/ RegisterCreateUser(p)
        \/ RegisterIssue(p)
        \/ Refresh(p)
        \/ RefreshVerify(p)
        \/ RefreshUser(p)
        \/ RefreshRevoke(p)
        \/ RefreshIssue(p)

SpecZoned == InitZoned /\ [][NextZoned]_vars

(***************************************************************************)
(* The functions of the subsystem called by themselves, on arguments of    *)
(* the caller's choice; call keeps the last call.  The server does not     *)
(* move.                                                                   *)
(***************************************************************************)
serverVars ==
    <<now, ticks, JWT_SECRET, REFRESH_SECRET, TZ, users, refreshTokens, blacklistedTokens,
      nextTokenId, proc, nreq, nfail, last, delivered, issuedRefresh, rotated,
      revokedByAll, blacklistedEver, unswept>>

Passwords ==
    {"Str0ng!Pass9", "C0rrect#Horse7", "Passw0rd!", "abc", "aaa", "password", "Abcdef12",
     "Gr8t&Wondr0us-Kiwi7", "", "\n\n\nAb1!kkTw", "Ab1!\n\n\nkkTwzz", "\n\n\n"}
\* The names nameValidationSchema is called with.
Names ==
    {"Ada Lovelace", "Bob", "A\nl", "A\rl", "A\fl", "A", "Ada1", "-Ada", "Al \t\n Bo", "",
     Undefined}
SaltDraws == {"5a17", "9f02"}

\* What hashPassword can have stored.
HashedCredentials == {hashPassword(p, salt) : p \in Passwords, salt \in SaltDraws}

\* Stored values hashPassword cannot have written, made from one it can: the value
\* without its separator and salt, with an empty salt, with a hash part cut to 12
\* bytes, and with a hash part that does not start with a hex digit.
Malformations(c) ==
    {<<c[1]>>,
     <<c[1], "">>,
     <<[c[1] EXCEPT !.pairs = 12], c[2]>>,
     <<[c[1] EXCEPT !.pairs = 0], c[2]>>}
MalformedCredentials == UNION {Malformations(c) : c \in HashedCredentials}

HashPasswordCall ==
    /\ \E p \in Passwords, salt \in SaltDraws :
        call' = [fn |-> "hashPassword", password |-> p, result |-> hashPassword(p, salt)]
    /\ UNCHANGED serverVars

\* comparePasswords on what the hashPassword call before it returned, or on a
\* malformed stored value.
ComparePasswordsCall ==
    /\ \E supplied \in Passwords,
          stored \in MalformedCredentials
                        \cup (IF call.fn = "hashPassword" THEN {call.result} ELSE {}) :
        call' = [fn |-> "comparePasswords", supplied |-> supplied, stored |-> stored,
                 hashedFrom |-> IF stored \in MalformedCredentials THEN Undefined
                                ELSE call.password,
                 result |-> comparePasswords(supplied, stored)]
    /\ UNCHANGED serverVars

CalculatePasswordStrengthCall ==
    /\ \E p \in Passwords :
        call' = [fn |-> "calculatePasswordStrength", password |-> p,
                 result |-> calculatePasswordStrength(Str(p))]
    /\ UNCHANGED serverVars

\* passwordValidationSchema.safeParse(password).success
PasswordValidationCall ==
    /\ \E p \in Passwords :
        call' = [fn |-> "passwordValidationSchema", password |-> p,
                 result |-> passwordValidationSchema(Str(p))]
    /\ UNCHANGED serverVars

\* nameValidationSchema.safeParse(name): success, and the messages of the issues.
NameValidationCall ==
    /\ \E n \in Names :
        call' = [fn |-> "nameValidationSchema", name |-> n,
                 result |-> nameValidationSchema(Str(n)),
                 issues |-> IF n = Undefined THEN {"Required"} ELSE NameIssues(Str(n))]
    /\ UNCHANGED serverVars

\* loginValidationSchema.safeParse(body): success, and the issues.
LoginValidationCall ==
    /\ \E b \in LoginBodies :
        call' = [fn |-> "loginValidationSchema", body |-> b,
                 result |-> loginValidationSchema([email |-> Str(b.email),
                                                   password |-> Str(b.password)]),
                 issues |-> SafeParseLogin[b]]
    /\ UNCHANGED serverVars

NextFunctions ==
    \/ HashPasswordCall
    \/ ComparePasswordsCall
    \/ CalculatePasswordStrengthCall
    \/ PasswordValidationCall
    \/ NameValidationCall
    \/ LoginValidationCall

SpecFunctions == Init /\ [][NextFunctions]_vars

(***************************************************************************)
(* Properties.                                                             *)
(***************************************************************************)
\* The refresh requests that present token t: in the cookie, in the body, or in the
\* cookie with something else in the body.
RefreshRequestsWith(t) ==
    {[NoReq EXCEPT !.cookieRefresh = t],
     [NoReq EXCEPT !.bodyRefresh = t],
     [NoReq EXCEPT !.cookieRefresh = t, !.bodyRefresh = Garbage]}

\* C1: of the POST /api/refresh requests that present one refresh token, concurrent
\* ones included, at most one succeeds; rotated[i] counts the successful refreshes
\* that presented the token of tokenId i.
C1_AtMostOneRefreshPerToken == \A i \in DOMAIN rotated : rotated[i] <= 1

\* C2: once a refresh that presented token T has succeeded, verifyRefreshToken(T) is
\* null whenever it is called, whether or not the store answers, and every refresh
\* request that presents T from then on is answered 401.
C2_ConsumedTokenIsDead ==
    \A t \in issuedRefresh :
        rotated[t.tokenId] > 0 =>
            /\ \A ok \in BOOLEAN : verifyRefreshToken(t, refreshTokens, now, ok) = NullPayload
            /\ \A req \in RefreshRequestsWith(t), fail \in {0, 1, 2} :
                /\ ~RefreshCheck(req, fail).next
                /\ RefreshCheck(req, fail).res.status = 401

\* A refresh with T has succeeded, T's signature and its own expiry still pass, and the
\* last request answered is a refresh that presented T and got 401.
C2_Witness ==
    /\ last.kind = "refresh"
    /\ last.res.status = 401
    /\ last.res.code = "REFRESH_TOKEN_INVALID"
    /\ PresentedRefreshToken(last.req) \in issuedRefresh
    /\ rotated[PresentedRefreshToken(last.req).tokenId] > 0
    /\ JwtVerifies(PresentedRefreshToken(last.req), REFRESH_SECRET, now)

\* What may be handed to a verifier: nothing, a string that is no JWT, a delivered
\* token, one signed with another key, and one signed for another user id.
PresentableTokens ==
    {NoToken, Garbage, Orphan}
        \cup delivered
        \cup {[t EXCEPT !.key = "forged"] : t \in delivered}
        \cup {[t EXCEPT !.userId = t.userId + 1] : t \in delivered}

\* The refresh_tokens table as it is, and with the expiresAt of its rows just before,
\* at and just after the present time.
TableVariants ==
    {refreshTokens}
        \cup {{[r EXCEPT !.expiresAt = e] : r \in refreshTokens} : e \in {now - 1, now, now + 1}}

\* C3: verifyRefreshToken returns the token's claims exactly when the signature
\* verifies under REFRESH_SECRET, the token's own exp has not been reached, and the
\* store answers with a row of the same tokenId and userId whose expiresAt has not
\* passed; in every other case it returns null.
C3_VerifyRefreshTokenExactly ==
    \A t \in PresentableTokens, table \in TableVariants, ok \in BOOLEAN :
        LET claims == verifyRefreshToken(t, table, now, ok)
            signatureOk == t.typ = "jwt" /\ t.key = REFRESH_SECRET
            ownExpiryOk == now < t.exp
            recordOk == /\ ok
                        /\ \E r \in table : /\ r.token = t.tokenId
                                            /\ r.userId = t.userId
                                            /\ r.expiresAt >= now
        IN  IF signatureOk /\ ownExpiryOk /\ recordOk
            THEN claims = PayloadOf(t) /\ claims # NullPayload
            ELSE claims = NullPayload

\* A refresh request was answered "invalid" for a token whose signature and own
\* expiry pass at that time and still do: the row is what was missing.
C3_Witness ==
    /\ last.kind = "refresh"
    /\ last.res.code = "REFRESH_TOKEN_INVALID"
    /\ last.at = now
    /\ LET t == PresentedRefreshToken(last.req)
       IN  /\ t.typ = "jwt" /\ t.key = REFRESH_SECRET /\ now < t.exp
           /\ ~\E r \in refreshTokens : r.token = t.tokenId /\ r.userId = t.userId
           /\ refreshTokens # {}

\* The requests authenticateToken may see.
AuthRequests ==
    {[NoReq EXCEPT !.authorization = cred.authorization,
                   !.cookieAccess = cred.cookieAccess] : cred \in Credentials}

\* The code of the first check of the fixed order that token t fails now, "" if none.
FirstFailedCheck(t) ==
    IF t = NoToken THEN "TOKEN_MISSING"
    ELSE IF \E b \in blacklistedTokens : b.token = t THEN "TOKEN_REVOKED"
    ELSE IF ~(t.typ = "jwt" /\ t.key = JWT_SECRET /\ now < t.exp) THEN "TOKEN_INVALID"
    ELSE IF ~\E u \in users : u.id = t.userId THEN "USER_NOT_FOUND"
    ELSE ""

\* C4: authenticateToken checks in the order missing, revoked, invalid, user not
\* found and answers 401 with the code of the first check that fails (AUTH_ERROR if
\* the store throws before that); it passes the request on with req.user set only
\* when all four pass, and never both rejects and passes on.
C4_AuthenticateTokenOrder ==
    \A req \in AuthRequests, fail \in {0, 1, 2} :
        LET a == authenticateToken(req, fail)
            first == FirstFailedCheck(FinalToken(req))
        IN  /\ a.next <=> a.res = NoRes
            /\ ~a.next => a.res.status = 401 /\ a.user = NoUser
            /\ a.next => first = "" /\ a.user # NoUser /\ a.user.id = FinalToken(req).userId
            /\ fail = 0 => a.res.code = first
            /\ a.res.code \in {first, "AUTH_ERROR"}

\* A request behind the middleware was answered TOKEN_REVOKED at a time when its
\* token was both blacklisted and past its exp.
C4_Witness ==
    /\ last.kind \in {"user", "logout", "logoutAll"}
    /\ last.res.code = "TOKEN_REVOKED"
    /\ last.at = now
    /\ now >= FinalToken(last.req).exp
    /\ \E b \in blacklistedTokens : b.token = FinalToken(last.req)

\* C5: once blacklistToken has stored an entry for access token t, authenticateToken
\* rejects every request that presents t, with TOKEN_REVOKED while t is unexpired,
\* although verifyAccessToken(t) alone still returns t's claims until t expires.
C5_BlacklistedIsRejected ==
    \A t \in blacklistedEver :
        /\ \A req \in AuthRequests, fail \in {0, 1, 2} :
            FinalToken(req) = t =>
                /\ ~authenticateToken(req, fail).next
                /\ authenticateToken(req, fail).res.status = 401
                /\ (fail = 0 /\ now < t.exp) =>
                       authenticateToken(req, fail).res.code = "TOKEN_REVOKED"
        /\ now < t.exp => /\ verifyAccessToken(t, now) = PayloadOf(t)
                          /\ verifyAccessToken(t, now) # NullPayload

\* A request that presented a blacklisted, unexpired token was answered TOKEN_REVOKED
\* while verifyAccessToken still returns the token's claims.
C5_Witness ==
    /\ last.kind \in {"user", "logout", "logoutAll"}
    /\ last.res.code = "TOKEN_REVOKED"
    /\ FinalToken(last.req) \in blacklistedEver
    /\ now < FinalToken(last.req).exp
    /\ verifyAccessToken(FinalToken(last.req), now) # NullPayload

\* C6: once revokeAllRefreshTokens(userId) has completed, verifyRefreshToken returns
\* null for every refresh token issued to that user before the call; revokedByAll
\* holds those tokens.
C6_RevokedByAllIsDead ==
    \A t \in revokedByAll, ok \in BOOLEAN :
        verifyRefreshToken(t, refreshTokens, now, ok) = NullPayload

\* logout-all has answered 200 and a token it revoked still passes jwt.verify.
C6_Witness ==
    /\ last.kind = "logoutAll"
    /\ last.res.status = 200
    /\ \E t \in revokedByAll : JwtVerifies(t, REFRESH_SECRET, now)

\* C7: POST /api/logout that presents an access token the server has delivered is
\* answered 200 "Logout successful" with both cookies cleared, whatever has become
\* of that token and of the refresh token presented with it (answers to a store
\* error set aside).
C7_LogoutAlwaysSucceeds ==
    (/\ last.kind = "logout"
     /\ FinalToken(last.req) \in delivered
     /\ FinalToken(last.req).tokenId = 0
     /\ last.res.code \notin {"AUTH_ERROR", "LOGOUT_ERROR"})
        => /\ last.res.status = 200
           /\ last.res.message = "Logout successful"
           /\ last.res.cookies = "cleared"

\* C8: a refresh request that has deleted the row of the token it consumed has also
\* inserted the row of the new token: no outcome leaves the old row deleted and no
\* new row created.
C8_RotationAllOrNothing ==
    (last.kind = "refresh" /\ last.deleted > 0) => last.inserted

\* The login bodies that pass validation, those whose email no user has, and those
\* whose password is not the one of the user with that email.
WellFormedLogin(b) ==
    loginValidationSchema([email |-> Str(b.email), password |-> Str(b.password)])
UnknownEmail(b) == ~\E u \in users : u.email = b.email
WrongPassword(b) ==
    \E u \in users : /\ u.email = b.email
                     /\ u.password # hashPassword(b.password, u.password[2])
InvalidCredentials == Res(401, "Invalid credentials", "INVALID_CREDENTIALS")

\* This step starts and answers a login request.
LoginAnswered ==
    /\ nreq' = nreq + 1
    /\ proc' = proc
    /\ last'.kind = "login"

\* A well-formed login that must be refused: unknown email or wrong password.
RefusedLogin(b) ==
    /\ UnknownEmail(b) \/ WrongPassword(b)
    /\ WellFormedLogin(b)

\* The answer of the handler to body b: the lookup, then the comparison of the
\* passwords for the user it found.
LoginOutcome(b, fail) ==
    LET r == LoginCheck(b, fail)
    IN  IF r.next THEN LoginCompare(b, r.user) ELSE r

\* This step refuses the login of a process that waited for comparePasswords.
LoginRefusedAfterCompare ==
    \E p \in Procs : /\ proc[p].pc = "login_compare"
                     /\ proc'[p] = IdleProc

\* C9: a well-formed login with an email no user has and one with the wrong password
\* of an existing user get the same answer, 401 "Invalid credentials" with code
\* INVALID_CREDENTIALS (the same 500 if the store throws); the answer carries no
\* token and sets no cookie, and the step writes no row to the store.
C9_LoginRefusalsAlike ==
    [][((LoginAnswered /\ RefusedLogin(last'.req.body)) \/ LoginRefusedAfterCompare)
        => /\ last'.kind = "login"
           /\ last'.res \in {InvalidCredentials,
                             Res(500, "Internal server error", "LOGIN_ERROR")}
           /\ last'.res.access = NoToken /\ last'.res.refresh = NoToken
           /\ last'.res.cookies = "kept"
           /\ UNCHANGED <<tables, nextTokenId, delivered, issuedRefresh>>
           /\ \A b \in LoginBodies, fail \in {0, 1} :
                RefusedLogin(b) =>
                    LET r == LoginOutcome(b, fail)
                    IN  /\ ~r.next
                        /\ fail = 0 => r.res = InvalidCredentials
                        /\ fail = 1 => r.res = Res(500, "Internal server error",
                                                   "LOGIN_ERROR")
      ]_vars

\* A login with the wrong password of an existing user was answered 401
\* INVALID_CREDENTIALS, and a login with an unknown email would get that same answer.
C9_Witness ==
    /\ last.kind = "login"
    /\ last.res = InvalidCredentials
    /\ WrongPassword(last.req.body)
    /\ \E b \in LoginBodies : /\ UnknownEmail(b) /\ WellFormedLogin(b)
                              /\ LoginOutcome(b, 0).res = last.res

\* The access tokens signed so far: delivered, or about to be.
MintedAccessTokens ==
    ({t \in delivered : t.tokenId = 0} \cup {proc[p].mint.access : p \in Procs}) \ {NoToken}

\* C10: an access token expires 15 minutes after it was signed; verifyAccessToken
\* returns its claims at every time before that and null from then on.
C10_AccessTokenLifetime ==
    \A t \in MintedAccessTokens :
        /\ t.iat <= now
        /\ t.exp = t.iat + 900
        /\ now < t.exp => /\ verifyAccessToken(t, now) = PayloadOf(t)
                          /\ verifyAccessToken(t, now) # NullPayload
        /\ now >= t.exp => verifyAccessToken(t, now) = NullPayload

\* GET /api/user with a delivered access token was answered TOKEN_INVALID in the very
\* second of the token's exp.
C10_Witness ==
    /\ last.kind = "user"
    /\ last.res.code = "TOKEN_INVALID"
    /\ FinalToken(last.req) \in delivered
    /\ FinalToken(last.req).tokenId = 0
    /\ last.at = FinalToken(last.req).exp
    /\ now = last.at

\* This step sends the 201 of the registration process p runs.
RegisterAnswered(p) ==
    /\ proc[p].pc = "register_issue"
    /\ proc'[p] = IdleProc
    /\ last'.kind = "register"
    /\ last'.res.status = 201

C12_FailedRefreshClearsCookies ==
    (last.kind = "refresh" /\ last.res.status # 200) => last.res.cookies = "cleared"

\* C13: the user object in a response of register, login, refresh or GET /api/user,
\* on any path, has no password field: it is no user at all or the id, name, email
\* and role of a stored user as the handler read them (the email and the role may
\* have been updated since).
C13_NoPasswordInResponses ==
    last.kind \in {"register", "login", "refresh", "user"} =>
        /\ "password" \notin DOMAIN last.res.user
        /\ DOMAIN last.res.user = {"id", "name", "email", "role"}
        /\ \/ last.res.user = NoUserBody
           \/ \E u \in users : u.id = last.res.user.id

\* A refresh was answered 200 with the user object of a stored user whose password
\* hash is set.
C13_Witness ==
    /\ last.kind = "refresh"
    /\ last.res.status = 200
    /\ \E u \in users : /\ last.res.user = WithoutPassword(u)
                        /\ u.password # NoUser.password

\* C14: optionalAuth sends no response and calls next() for every request, whether
\* the token is missing, blacklisted, invalid, expired, of an unknown user, or the
\* store throws; it sets req.user, to the user authenticateToken would set, exactly
\* when authenticateToken accepts the same request, and leaves it unset otherwise.
C14_OptionalAuthNeverRejects ==
    /\ \A req \in AuthRequests, fail \in {0, 1, 2} :
        LET o == optionalAuth(req, fail)
            a == authenticateToken(req, fail)
        IN  /\ o.next
            /\ o.res = NoRes
            /\ (o.user # NoUser) <=> a.next
            /\ o.user = a.user
    /\ last.kind = "optional" => last.res = NoRes

\* A request with a blacklisted token went through optionalAuth and was passed on
\* without a user.
C14_Witness ==
    /\ last.kind = "optional"
    /\ last.res = NoRes
    /\ last.user = NoUser
    /\ last.at = now
    /\ isTokenBlacklisted(blacklistedTokens, FinalToken(last.req))
    /\ verifyAccessToken(FinalToken(last.req), now) # NullPayload

C16_CompareFailsClosed ==
    (call.fn = "comparePasswords" /\ call.stored \in MalformedCredentials) =>
        call.result = "false"

\* This step starts a registration request and answers it.
RegisterRefusedAtOnce ==
    /\ nreq' = nreq + 1
    /\ proc' = proc
    /\ last'.kind = "register"

\* The scorer puts the password pw of a request body in the band very-weak or weak.
WeakBand(pw) ==
    /\ pw # Undefined
    /\ calculatePasswordStrength(Str(pw)).strength \in {"very-weak", "weak"}

\* C17 as stated: a registration with a password of band very-weak or weak is
\* answered 400 "Password is too weak".
C17_WeakPasswordTooWeak ==
    (last.kind = "register" /\ WeakBand(last.req.body.password)) =>
        /\ last.res.status = 400
        /\ last.res.error = "Password is too weak"

\* C17, amended: a registration with a password of band very-weak or weak is
\* answered 400 "Validation failed" with an issue on the password field, in the step
\* that starts it, with no user created and no token issued: such a password fails
\* the validation schema already.  No weak password gets past validation, and
\* "Password is too weak" is never answered.
C17_WeakPasswordFailsValidation ==
    [][/\ (RegisterRefusedAtOnce /\ WeakBand(last'.req.body.password))
            => /\ last'.res.status = 400
               /\ last'.res.error = "Validation failed"
               /\ \E i \in last'.res.details : i[1] = "password"
               /\ last'.res.access = NoToken /\ last'.res.refresh = NoToken
               /\ last'.res.cookies = "kept"
               /\ UNCHANGED <<tables, nextTokenId, delivered, issuedRefresh>>
       /\ \A p \in Procs :
            (proc[p].pc = "idle" /\ proc'[p].kind = "register")
                => /\ ~WeakBand(proc'[p].req.body.password)
                   /\ StrengthScore(Str(proc'[p].req.body.password)) >= 7
       /\ last'.res.error # "Password is too weak"
      ]_vars

\* A registration whose only fault is a password of a weak band was answered 400
\* "Validation failed".
C17_Witness ==
    /\ last.kind = "register"
    /\ WeakBand(last.req.body.password)
    /\ last.res.status = 400
    /\ last.res.error = "Validation failed"
    /\ \A i \in last.res.details : i[1] = "password"
    /\ Len(Str(last.req.body.password)) >= 8

\* The criteria, of the nine the scorer counts, that password pw satisfies; the
\* eighth is the test /(.)\1{2,}/, which no run of line terminators fails.
SatisfiedCriteria(pw) ==
    {k \in 1..9 :
        CASE k = 1 -> Len(pw) >= 8
          [] k = 2 -> Len(pw) >= 12
          [] k = 3 -> Len(pw) >= 16
          [] k = 4 -> \E i \in 1..Len(pw) : pw[i] \in LowerChars
          [] k = 5 -> \E i \in 1..Len(pw) : pw[i] \in UpperChars
          [] k = 6 -> \E i \in 1..Len(pw) : pw[i] \in DigitChars
          [] k = 7 -> \E i \in 1..Len(pw) : pw[i] \notin AlnumChars
          [] k = 8 -> ~\E i \in 1..(Len(pw) - 2) :
                          /\ pw[i] \notin LineTerminators
                          /\ pw[i] = pw[i + 1] /\ pw[i] = pw[i + 2]
          [] OTHER -> ~HasSequential(pw)}

\* The nine criteria as the claim words them: the eighth is that no character at all
\* stands three or more times in a row.
StatedCriteria(pw) ==
    {k \in 1..9 :
        IF k = 8
        THEN ~\E i \in 1..(Len(pw) - 2) : pw[i] = pw[i + 1] /\ pw[i] = pw[i + 2]
        ELSE k \in SatisfiedCriteria(pw)}

BandOf(n) ==
    IF n <= 2 THEN "very-weak"
    ELSE IF n <= 4 THEN "weak"
    ELSE IF n <= 6 THEN "fair"
    ELSE IF n <= 8 THEN "good"
    ELSE "strong"

\* C18: calculatePasswordStrength returns as score the number of the nine criteria
\* the password satisfies (the eighth: no character repeated three or more times in
\* a row), between 0 and 9, and as band very-weak for a score up to 2, weak up to 4,
\* fair up to 6, good up to 8 and strong for 9; a call changes no state of the
\* server, and a call with the password of the call before returns the same score,
\* band and feedback.
C18_StrengthScoreAndBands ==
    [][call'.fn = "calculatePasswordStrength" =>
        LET r == call'.result
            n == Cardinality(StatedCriteria(Str(call'.password)))
        IN  /\ r.score = n
            /\ r.score \in 0..9
            /\ r.strength = BandOf(n)
            /\ (r.strength = "strong") <=> (n = 9)
            /\ UNCHANGED serverVars
            /\ \A other \in Passwords :
                 other = call'.password => calculatePasswordStrength(Str(other)) = r
      ]_vars

\* C18, what the scorer does: the score is the number of the criteria met with the
\* eighth as the code tests it, which a run of three line feeds or carriage returns
\* passes; the bounds, the bands, the purity and the determinism are as stated.
C18_ScoreCountsTestedCriteria ==
    [][call'.fn = "calculatePasswordStrength" =>
        LET r == call'.result
            n == Cardinality(SatisfiedCriteria(Str(call'.password)))
        IN  /\ r.score = n
            /\ r.score \in 0..9
            /\ r.strength = BandOf(n)
            /\ (r.strength = "strong") <=> (n = 9)
            /\ n >= Cardinality(StatedCriteria(Str(call'.password)))
            /\ UNCHANGED serverVars
            /\ \A other \in Passwords :
                 other = call'.password => calculatePasswordStrength(Str(other)) = r
      ]_vars

\* The scorer was called on a password with three line feeds in a row and counted
\* the eighth criterion as met.
C18_RepeatedLineFeedsScored ==
    /\ call.fn = "calculatePasswordStrength"
    /\ 8 \in SatisfiedCriteria(Str(call.password))
    /\ 8 \notin StatedCriteria(Str(call.password))
    /\ call.result.score = Cardinality(StatedCriteria(Str(call.password))) + 1

\* The scorer was called on a password that satisfies all nine criteria and returned
\* 9 and strong.
C18_Witness ==
    /\ call.fn = "calculatePasswordStrength"
    /\ call.result.score = 9
    /\ call.result.strength = "strong"
    /\ call.result.feedback = {}
    /\ Len(Str(call.password)) >= 16

\* The last answered request is a registration whose password and confirmPassword
\* differ.
MismatchedRegistration ==
    /\ last.kind = "register"
    /\ last.req.body.password # last.req.body.confirmPassword

\* C19: a registration whose password differs from confirmPassword is answered 400
\* and the reported issues include the one of field confirmPassword with the message
\* "Passwords do not match", whatever else fails validation.
C19_MismatchAlwaysReported ==
    MismatchedRegistration =>
        /\ last.res.status = 400
        /\ <<"confirmPassword", "Passwords do not match">> \in last.res.details

\* What does hold of a mismatched registration: it is answered 400 "Validation
\* failed" without a token, and the mismatch is among the issues when all four
\* fields are strings.
C19_MismatchRejected ==
    MismatchedRegistration =>
        /\ last.res.status = 400
        /\ last.res.error = "Validation failed"
        /\ last.res.access = NoToken /\ last.res.refresh = NoToken
        /\ last.res.details # {}
        /\ (\A f \in DOMAIN last.req.body : last.req.body[f] # Undefined)
               => <<"confirmPassword", "Passwords do not match">> \in last.res.details

\* Process p completes generateRefreshToken in this step: its insert returns and the
\* response with the new pair is sent.
RefreshTokenGenerated(p) ==
    /\ proc[p].pc \in {"register_issue", "login_issue", "refresh_issue"}
    /\ proc'[p] = IdleProc
    /\ last'.inserted

\* The refresh-token records of user id in table.
RecordsOf(table, id) == {r \in table : r.userId = id}

\* What generateRefreshToken does to the table when it returns for process p: one
\* record more, with the user's id and a tokenId no record and no issued token had
\* before, and every other record as it was.
AddsOneRecord(p) ==
    LET row == proc[p].mint.row
        user == proc[p].user
    IN  /\ row \notin refreshTokens
        /\ refreshTokens' = refreshTokens \cup {row}
        /\ Cardinality(refreshTokens') = Cardinality(refreshTokens) + 1
        /\ row.userId = user.id
        /\ row.token = last'.res.refresh.tokenId
        /\ ~\E r \in refreshTokens : r.token = row.token
        /\ ~\E t \in issuedRefresh : t.tokenId = row.token
        /\ Cardinality(RecordsOf(refreshTokens', user.id))
               = Cardinality(RecordsOf(refreshTokens, user.id)) + 1
        /\ \A u \in users : u.id # user.id =>
               RecordsOf(refreshTokens', u.id) = RecordsOf(refreshTokens, u.id)

\* C20, what holds in every time zone: the returning call adds exactly one record and
\* leaves the others; the record expires at the same local time of day seven
\* calendar days on, which is seven days later, or an hour less or more when the
\* clocks of the zone change in between.
C20_AddsOneRecordSevenCalendarDays ==
    [][\A p \in Procs :
        RefreshTokenGenerated(p) =>
            LET row == proc[p].mint.row
                iat == last'.res.refresh.iat
            IN  /\ AddsOneRecord(p)
                /\ row.expiresAt = AddSevenDays(iat)
                /\ row.expiresAt - iat \in {7 * 24 * 60 * 60 - 3600, 7 * 24 * 60 * 60,
                                            7 * 24 * 60 * 60 + 3600}
                /\ TZ = UTC => row.expiresAt = iat + 7 * 24 * 60 * 60
      ]_vars

\* A refresh token is refused for its expired record while its own exp has not
\* passed: the record was written before the clocks went forward and expires an
\* hour before the token.
C20_RecordExpiredBeforeToken ==
    /\ last.kind = "refresh"
    /\ last.res.code = "REFRESH_TOKEN_INVALID"
    /\ \E t \in issuedRefresh, r \in refreshTokens :
            /\ PresentedRefreshToken(last.req) = t
            /\ r.token = t.tokenId /\ r.userId = t.userId
            /\ r.expiresAt = t.iat + 7 * 24 * 60 * 60 - 3600
            /\ r.expiresAt <= now /\ now < t.exp

\* C20: a call of generateRefreshToken that returns adds exactly one record, with the
\* user's id, a tokenId no record and no issued token had before and an expiry seven
\* days after the call, and leaves every other record as it was; the user's record
\* count grows by one, in login and in registration as well.
C20_GenerateAddsOneRecord ==
    [][\A p \in Procs :
        RefreshTokenGenerated(p) =>
            LET row == proc[p].mint.row
                user == proc[p].user
            IN  /\ row \notin refreshTokens
                /\ refreshTokens' = refreshTokens \cup {row}
                /\ refreshTokens \subseteq refreshTokens'
                /\ Cardinality(refreshTokens') = Cardinality(refreshTokens) + 1
                /\ row.userId = user.id
                /\ row.token = last'.res.refresh.tokenId
                /\ ~\E r \in refreshTokens : r.token = row.token
                /\ ~\E t \in issuedRefresh : t.tokenId = row.token
                /\ row.expiresAt = last'.res.refresh.iat + 7 * 24 * 60 * 60
                /\ Cardinality(RecordsOf(refreshTokens', user.id))
                       = Cardinality(RecordsOf(refreshTokens, user.id)) + 1
                /\ \A u \in users : u.id # user.id =>
                       RecordsOf(refreshTokens', u.id) = RecordsOf(refreshTokens, u.id)
      ]_vars

\* A login has been answered with a new pair while the user keeps an older record:
\* the insert came on top of a record that was already there.
C20_Witness ==
    /\ last.kind = "login"
    /\ last.inserted
    /\ last.res.status = 200
    /\ \E r \in refreshTokens :
            /\ r.userId = last.res.user.id
            /\ r.token = last.res.refresh.tokenId
    /\ \E r \in refreshTokens :
            /\ r.userId = last.res.user.id
            /\ r.token # last.res.refresh.tokenId

\* authenticateToken lets the logout of process p pass in this step: storage.getUser
\* has answered with the user, and the handler runs up to its first await.
LogoutAdmitted(p) ==
    /\ proc[p].pc = "authenticate_user"
    /\ proc[p].kind = "logout"
    /\ \/ proc'[p].pc \in {"logout_blacklist", "logout_verify"}
       \/ /\ proc'[p] = IdleProc
          /\ last'.kind = "logout"
          /\ last'.res.status = 200

\* The request of the logout process p.
AdmittedRequest(p) == proc[p].req

\* C21: blacklistToken on a token that does not decode as a valid access token
\* (no JWT, another signature, expired) returns without an error and leaves the
\* blacklist as it was: the logout goes on to its refresh cookie or answers 200, and
\* every entry the blacklist gains is one of a token that did decode.
C21_UndecodableIsNoOp ==
    [][/\ \A p \in Procs :
            (/\ LogoutAdmitted(p)
             /\ ~JwtVerifies(LogoutAccessToken(AdmittedRequest(p)), JWT_SECRET, now))
                => /\ blacklistedTokens' = blacklistedTokens
                   /\ blacklistedEver' = blacklistedEver
                   /\ proc'[p].pc \in {"idle", "logout_verify"}
                   /\ proc'[p].pc = "idle" => last'.res = LogoutOk
       /\ \A b \in blacklistedTokens' \ blacklistedTokens :
            /\ b.token.typ = "jwt"
            /\ b.token.key = JWT_SECRET
            /\ b.expiresAt = b.token.exp
            /\ \E p \in Procs : /\ proc[p].pc = "logout_blacklist"
                                /\ b.token = LogoutAccessToken(proc[p].req)
      ]_vars

\* A logout admitted on the token of its header has been answered 200 at once while
\* its cookie held a token that had expired, and a logout has been answered 200 while
\* its cookie held a string that is no JWT; neither is on the blacklist.
C21_Witness ==
    /\ last.kind = "logout"
    /\ last.res.status = 200
    /\ last.req.authorization # NoToken
    /\ \/ /\ last.req.cookieAccess.typ = "jwt"
          /\ last.req.cookieAccess.key = JWT_SECRET
          /\ last.req.cookieRefresh = NoToken
          /\ last.at >= last.req.cookieAccess.exp
       \/ last.req.cookieAccess = Garbage
    /\ ~isTokenBlacklisted(blacklistedTokens, last.req.cookieAccess)
    /\ last.req.cookieAccess \notin blacklistedEver

\* Process p has called cleanupExpiredTokens in this step.
CleanupCalled(p) ==
    /\ proc[p].pc = "idle"
    /\ proc'[p].pc = "cleanup_refresh"

\* Process p has run the first delete of cleanupExpiredTokens in this step.
CleanupStarted(p) ==
    /\ proc[p].pc = "cleanup_refresh"
    /\ proc'[p].pc \in {"cleanup_blacklist", "idle"}

\* Process p has run the second delete of cleanupExpiredTokens in this step.
CleanupFinished(p) ==
    /\ proc[p].pc = "cleanup_blacklist"
    /\ proc'[p].pc = "idle"

\* The rows of table whose expiresAt is before t.
ExpiredRows(table, t) == {r \in table : r.expiresAt < t}

\* C22: cleanupExpiredTokens deletes from refresh_tokens and from blacklisted_tokens
\* exactly the rows whose expiresAt is before the time the call read when it was
\* made (or, where the store throws, nothing) and touches nothing else; a second run
\* at the same time deletes nothing more; and a verifyRefreshToken that meets the
\* table after the delete returns what it would have returned before it, or null.
C22_CleanupDeletesExactlyExpired ==
    [][\A p \in Procs :
        /\ CleanupCalled(p) =>
            /\ proc'[p].cut = now
            /\ UNCHANGED <<tables, now>>
        /\ CleanupStarted(p) =>
            /\ proc[p].cut <= now
            /\ \/ /\ proc'[p].pc = "cleanup_blacklist"
                  /\ proc'[p].cut = proc[p].cut
                  /\ refreshTokens'
                         = refreshTokens \ ExpiredRows(refreshTokens, proc[p].cut)
               \/ /\ proc'[p].pc = "idle"
                  /\ refreshTokens' = refreshTokens
            /\ UNCHANGED <<users, blacklistedTokens, now>>
            /\ cleanupExpired(refreshTokens', proc[p].cut) = refreshTokens'
                   \/ refreshTokens' = refreshTokens
            /\ \A t \in PresentableTokens, ok \in BOOLEAN :
                   verifyRefreshToken(t, refreshTokens', now, ok)
                       \in {verifyRefreshToken(t, refreshTokens, now, ok), NullPayload}
        /\ CleanupFinished(p) =>
            /\ \/ blacklistedTokens'
                      = blacklistedTokens \ ExpiredRows(blacklistedTokens, proc[p].cut)
               \/ blacklistedTokens' = blacklistedTokens
            /\ UNCHANGED <<users, refreshTokens, now>>
            /\ cleanupExpired(blacklistedTokens', proc[p].cut) = blacklistedTokens'
                   \/ blacklistedTokens' = blacklistedTokens
      ]_vars

\* A cleanup has run after which the record of an expired refresh token that no
\* rotation and no logout-all removed is gone, while a record that has not expired is
\* still there.
C22_Witness ==
    /\ last.kind = "cleanup"
    /\ \E t \in issuedRefresh :
            /\ t \notin revokedByAll
            /\ rotated[t.tokenId] = 0
            /\ t.exp < now
            /\ ~\E r \in refreshTokens : r.token = t.tokenId
    /\ \E r \in refreshTokens : ~(r.expiresAt < now)

\* authenticateToken lets a request with token t pass when the blacklist is table
\* and the store does not throw.
AuthenticateAccepts(table, t) ==
    /\ t # NoToken
    /\ ~isTokenBlacklisted(table, t)
    /\ verifyAccessToken(t, now) # NullPayload
    /\ getUser(verifyAccessToken(t, now).userId) # NoUser

\* C23: the sweep is no correctness dependency.  At every instant and for every
\* token, verifyRefreshToken returns on the tables of this run, in which
\* cleanupExpiredTokens ran at arbitrary points, what it returns on the tables as they
\* would be had it never run, and authenticateToken accepts on the one exactly when
\* it accepts on the other; a record that has expired but was not deleted is invalid;
\* and a blacklisted access token whose entry was deleted is not accepted again.
C23_SweepIsNoDependency ==
    /\ \A t \in PresentableTokens, ok \in BOOLEAN :
            verifyRefreshToken(t, refreshTokens, now, ok)
                = verifyRefreshToken(t, unswept.refreshTokens, now, ok)
    /\ \A req \in AuthRequests :
            /\ authenticateToken(req, 0).next
                   <=> AuthenticateAccepts(blacklistedTokens, FinalToken(req))
            /\ AuthenticateAccepts(blacklistedTokens, FinalToken(req))
                   <=> AuthenticateAccepts(unswept.blacklistedTokens, FinalToken(req))
    /\ \A t \in issuedRefresh, ok \in BOOLEAN :
            (\E r \in unswept.refreshTokens : r.token = t.tokenId /\ r.expiresAt < now)
                => verifyRefreshToken(t, unswept.refreshTokens, now, ok) = NullPayload
    /\ \A t \in blacklistedEver :
            /\ isTokenBlacklisted(unswept.blacklistedTokens, t)
            /\ ~AuthenticateAccepts(blacklistedTokens, t)
    /\ refreshTokens \subseteq unswept.refreshTokens
    /\ blacklistedTokens \subseteq unswept.blacklistedTokens

\* The sweep has removed the record of a refresh token and the entry of a blacklisted
\* access token which a run without sweeps would still hold.
C23_Witness ==
    /\ \E r \in unswept.refreshTokens : r \notin refreshTokens
    /\ \E b \in unswept.blacklistedTokens :
            /\ b \notin blacklistedTokens
            /\ b.token \in blacklistedEver
            /\ b.token \in delivered

\* C24: verifyAccessToken and verifyRefreshToken never throw: for every input (no
\* token, a string that is no JWT, a token of another key or user, a delivered token)
\* and every outcome of the store, a failed record lookup included, the call returns
\* the token's claims or null, and it is what the handlers get from the verifier.
C24_VerifiersNeverThrow ==
    \A t \in PresentableTokens :
        /\ ~verifyAccessTokenCall(t, now).threw
        /\ verifyAccessTokenCall(t, now).value \in {PayloadOf(t), NullPayload}
        /\ verifyAccessTokenCall(t, now).value = verifyAccessToken(t, now)
        /\ \A table \in {refreshTokens, unswept.refreshTokens}, ok \in BOOLEAN :
            LET c == verifyRefreshTokenCall(t, table, now, ok)
            IN  /\ ~c.threw
                /\ c.value \in {PayloadOf(t), NullPayload}
                /\ c.value = verifyRefreshToken(t, table, now, ok)
                /\ ~ok => c.value = NullPayload

\* A refresh request has been answered "invalid" although its token verifies and
\* its record is there and has not expired: the lookup of the record threw, and the
\* verifier returned null.
C24_Witness ==
    /\ last.kind = "refresh"
    /\ last.res.status = 401
    /\ last.res.code = "REFRESH_TOKEN_INVALID"
    /\ last.at = now
    /\ verifyRefreshTokenCall(PresentedRefreshToken(last.req), refreshTokens, now, TRUE).value
           # NullPayload
    /\ verifyRefreshTokenCall(PresentedRefreshToken(last.req), refreshTokens, now, FALSE)
           = Returned(NullPayload)

\* C25: the two kinds of token are never interchangeable, whatever secrets the
\* program started with: no token of generateRefreshToken is accepted by
\* verifyAccessToken or by authenticateToken, and no token of generateAccessToken is
\* accepted by verifyRefreshToken.
C25_KindsNotInterchangeable ==
    /\ \A t \in issuedRefresh :
            /\ verifyAccessToken(t, now) = NullPayload
            /\ ~authenticateToken([NoReq EXCEPT !.authorization = t], 0).next
    /\ \A t \in delivered :
            t.tokenId = 0 => \A ok \in BOOLEAN :
                verifyRefreshToken(t, refreshTokens, now, ok) = NullPayload

\* What does hold under every configuration: a refresh token is accepted as an access
\* token only where the two secrets are equal, and an access token is never accepted
\* as a refresh token.
C25_InterchangeableOnlyIfSameSecret ==
    /\ JWT_SECRET # REFRESH_SECRET => C25_KindsNotInterchangeable
    /\ \A t \in delivered :
            t.tokenId = 0 => \A ok \in BOOLEAN :
                verifyRefreshToken(t, refreshTokens, now, ok) = NullPayload

\* C26: the access token a successful logout blacklists is the token on which
\* authenticateToken admitted the request, so that after the 200 no request that
\* presents the admitting token is accepted, also when the header and the cookie of
\* the logout held different tokens.
C26_LogoutBlacklistsAdmittingToken ==
    (/\ last.kind = "logout"
     /\ last.res.status = 200
     /\ isTokenBlacklisted(blacklistedTokens, LogoutAccessToken(last.req)))
        => /\ LogoutAccessToken(last.req) = FinalToken(last.req)
           /\ ~AuthenticateAccepts(blacklistedTokens, FinalToken(last.req))

\* C27: once logout-all of a user has completed, no refresh request that presents a
\* refresh token issued to the user before that completion succeeds, and no record
\* of the user exists that such a request created, whatever refresh requests of the
\* user were in flight; revokedByAll holds the tokens issued before a completion.
C27_LogoutAllEndsEverySession ==
    (/\ last.kind = "refresh"
     /\ PresentedRefreshToken(last.req) \in revokedByAll)
        => /\ last.res.status # 200
           /\ ~\E r \in refreshTokens :
                  /\ r.userId = PresentedRefreshToken(last.req).userId
                  /\ last.res.refresh # NoToken
                  /\ r.token = last.res.refresh.tokenId

\* The rows of table for token t.
EntriesFor(table, t) == {b \in table : b.token = t}

\* C28: blacklisting one access token more than once, by concurrent logouts or by
\* later ones, is harmless: the blacklist never holds two entries for a token and,
\* sweeps set aside, holds exactly one for every token blacklisted; no step of
\* blacklistToken ends a logout in an error; and a logout that authenticateToken
\* admitted is answered 200, unless the revoke of its refresh token threw.
C28_RepeatedBlacklistingHarmless ==
    [][/\ \A t \in blacklistedEver' :
            /\ Cardinality(EntriesFor(blacklistedTokens', t)) <= 1
            /\ Cardinality(EntriesFor(unswept'.blacklistedTokens, t)) = 1
       /\ \A p \in Procs :
            /\ (proc[p].pc = "logout_blacklist" /\ proc'[p] # proc[p]) =>
                 \/ proc'[p].pc = "logout_verify"
                 \/ proc'[p].pc = "idle" /\ last'.res = LogoutOk
            /\ (proc[p].pc = "logout_verify" /\ proc'[p].pc = "idle") => last'.res = LogoutOk
            /\ (proc[p].pc = "logout_revoke" /\ proc'[p].pc = "idle") =>
                 \/ last'.res = LogoutOk
                 \/ /\ last'.res.code = "LOGOUT_ERROR"
                    /\ refreshTokens' = refreshTokens
            /\ (LogoutAdmitted(p) /\ proc'[p].pc = "idle") => last'.res = LogoutOk
      ]_vars

\* Two logouts were admitted on one access token before either had blacklisted it
\* and both have passed blacklistToken: one has been answered 200, the other is at
\* its refresh token, and the blacklist holds one entry for the token.
C28_Witness ==
    /\ last.kind = "logout"
    /\ last.res.status = 200
    /\ FinalToken(last.req) = LogoutAccessToken(last.req)
    /\ \E p \in Procs :
            /\ proc[p].pc \in {"logout_verify", "logout_revoke"}
            /\ FinalToken(proc[p].req) = LogoutAccessToken(last.req)
            /\ LogoutAccessToken(proc[p].req) = LogoutAccessToken(last.req)
    /\ LogoutAccessToken(last.req) \in blacklistedEver
    /\ Cardinality(EntriesFor(blacklistedTokens, LogoutAccessToken(last.req))) = 1

\* C29: every password passwordValidationSchema accepts is scored at least 7 by
\* calculatePasswordStrength and so banded good or strong: the band the registration
\* handler rejects as too weak is not the band of any password that passed validation.
C29_AcceptedScoresAtLeastSeven ==
    (call.fn = "passwordValidationSchema" /\ call.result) =>
        LET analysis == calculatePasswordStrength(Str(call.password))
        IN  /\ analysis.score >= 7
            /\ analysis.strength \in {"good", "strong"}
            /\ analysis.strength \notin {"very-weak", "weak"}
            /\ Cardinality(SatisfiedCriteria(Str(call.password)) \cap (4..9)) = 6
            /\ 1 \in SatisfiedCriteria(Str(call.password))

\* The gate has accepted a password that scores exactly 7: eight to eleven
\* characters long, it misses the two points for length only.
C29_Witness ==
    /\ call.fn = "passwordValidationSchema"
    /\ call.result
    /\ calculatePasswordStrength(Str(call.password)).score = 7
    /\ Len(Str(call.password)) < 12

\* Process p runs revokeRefreshToken in this step, in a refresh or in a logout.
RevokeStep(p) ==
    /\ proc[p].pc \in {"refresh_revoke", "logout_revoke"}
    /\ proc'[p] # proc[p]

\* Process p runs revokeAllRefreshTokens in this step.
RevokeAllStep(p) ==
    /\ proc[p].pc = "logoutAll_revoke"
    /\ proc'[p].pc = "idle"

\* C30: revocation is scoped to its target.  revokeRefreshToken(tokenId, userId)
\* removes at most the one record of that tokenId and userId, revokeAllRefreshTokens
\* removes records of that user only (all of them where it succeeds), and both leave
\* the records of every other user, the users and the whole blacklist as they were;
\* logout-all blacklists nothing, so every access token authenticateToken accepted
\* before the step it accepts after it.
C30_RevocationScoped ==
    [][\A p \in Procs :
        /\ RevokeStep(p) =>
            LET gone == refreshTokens \ refreshTokens'
            IN  /\ Cardinality(gone) <= 1
                /\ \A r \in gone : /\ r.token = proc[p].payload.tokenId
                                   /\ r.userId = proc[p].payload.userId
                /\ refreshTokens' \subseteq refreshTokens
                /\ UNCHANGED <<users, blacklistedTokens, blacklistedEver>>
        /\ RevokeAllStep(p) =>
            LET gone == refreshTokens \ refreshTokens'
            IN  /\ \A r \in gone : r.userId = proc[p].user.id
                /\ refreshTokens' \subseteq refreshTokens
                /\ last'.res.status = 200 =>
                       RecordsOf(refreshTokens', proc[p].user.id) = {}
                /\ \A u \in users : u.id # proc[p].user.id =>
                       RecordsOf(refreshTokens', u.id) = RecordsOf(refreshTokens, u.id)
                /\ UNCHANGED <<users, blacklistedTokens, blacklistedEver>>
                /\ \A t \in delivered :
                       AuthenticateAccepts(blacklistedTokens, t)
                           => (AuthenticateAccepts(blacklistedTokens, t))'
      ]_vars

\* Logout-all has answered 200: the user has no refresh record left, the record of
\* another user is still there, and the access token that admitted the request is
\* still accepted by authenticateToken.
C30_Witness ==
    /\ last.kind = "logoutAll"
    /\ last.res.status = 200
    /\ last.at = now
    /\ RecordsOf(refreshTokens, FinalToken(last.req).userId) = {}
    /\ \E r \in refreshTokens : r.userId # FinalToken(last.req).userId
    /\ authenticateToken([NoReq EXCEPT !.authorization = FinalToken(last.req)], 0).next
    /\ blacklistedTokens = {}
====
